---- MODULE Spec2Model ----
(***************************************************************************)
(* Admission control of the clip-ingestion service                         *)
(* (server/src/security.py, server/src/cache.py) and the HTTP handler that *)
(* calls it (server/api/audio_processor.py).                               *)
(*                                                                         *)
(* Strings are sequences of one-character strings, so that concatenation,  *)
(* str(), int() and the regular expressions are computed, not assumed.     *)
(***************************************************************************)
EXTENDS Integers, Sequences, FiniteSets, TLC

VARIABLES
    now,        \* the wall clock, whole seconds (int(time.time()))
    ticks,      \* how many times the clock has been advanced
    backend,    \* the cache create_cache() built: "memory" or "redis"
    cache,      \* the shared cache: sorted sets, plain keys, expiry times
    pc,         \* per worker: where it stands inside check_rate_limit
    call,       \* per worker: the locals of its check_rate_limit call
    ncalls,     \* number of check_rate_limit calls started by the workers
    admitted,   \* per identity: clock values at which a call was admitted
    phase,      \* the HTTP handler: "idle" or "responded"
    req,        \* the request the handler last served
    resp,       \* what the handler answered
    steady,     \* the steady traffic under way: whose, and rounds left
    tasks,      \* TaskManager._tasks: task id -> record
    tpc,        \* per registry thread: where it is in its TaskManager call
    tcall,      \* per registry thread: the arguments and locals of that call
    nops,       \* TaskManager calls started so far
    jobs,       \* per request served: what was asked, how far it got, its reply
    nreqs,      \* requests served so far
    touched,    \* clip-ID strings that reached a URL, a file path or a storage key
    store,      \* the object store: the keys it holds
    lastrun,    \* the last operation run against the store: inputs, calls, result
    nruns,      \* operations run against the store so far
    twin,       \* two deployments fed the same requests: in-memory and Redis
    inflight    \* per pipeline runner: the process_clip call it is inside

\* the variables of the limiter and of the gate
sec_vars == <<now, ticks, backend, cache, pc, call, ncalls, admitted, phase, req, resp, steady>>

\* the variables of the task registry
task_vars == <<tasks, tpc, tcall, nops>>

\* the variables of the HTTP entry points and of the pipeline runner
api_vars == <<jobs, nreqs, touched>>

\* the object store and the operation last run against it
store_vars == <<store, lastrun, nruns>>

\* the twin deployments and the pipeline runs in flight
run_vars == <<twin, inflight>>

\* what the limiter and the gate leave alone
ext_vars == <<task_vars, api_vars, store_vars, run_vars>>

vars == <<sec_vars, ext_vars>>

----------------------------------------------------------------------------
(* Program constants *)

rate_limit_requests == 15
rate_limit_window == 60
nonce_expiry == 300
ttl_buffer == 60
rate_limit_prefix == <<"rate_limit:">>

(* Bounds of the model *)

T0 == 1000          \* the clock value at construction
MaxTicks == 1       \* clock advances explored
MaxCalls == 2       \* check_rate_limit calls the workers start
NumWorkers == 2     \* concurrent workers (threads or instances)
MaxDeviations == 2   \* request fields that differ from a correct request
NumThreads == 2      \* threads calling the TaskManager
MaxOps == 4          \* TaskManager calls started
MaxElapse == 1         \* clock advances while the registry is in use
MaxRequests == 2       \* HTTP requests served
MaxRuns == 2           \* operations run against the object store
MaxFaults == 2         \* things that go wrong during one operation
MaxChecks == 3         \* single requests sent to the twin deployments
MaxBursts == 1         \* rounds of steady traffic sent to them
MaxQuiets == 1         \* quiet spells between their requests
NumRunners == 2        \* pipeline runs that can be in flight together
MaxFlights == 3        \* pipeline runs started by them

Workers == 1..NumWorkers
Unknown == <<"unknown">>      \* the bucket of requests without a proxy header
RateClients == {<<"a">>, Unknown}

----------------------------------------------------------------------------
(* Strings *)

Digits == <<"0", "1", "2", "3", "4", "5", "6", "7", "8", "9">>

RECURSIVE StrNat(_)
StrNat(n) == IF n < 10 THEN <<Digits[n + 1]>>
             ELSE StrNat(n \div 10) \o <<Digits[(n % 10) + 1]>>

\* str(n) of a Python int
Str(n) == IF n < 0 THEN <<"-">> \o StrNat(0 - n) ELSE StrNat(n)

Rep(ch, n) == [i \in 1..n |-> ch]

----------------------------------------------------------------------------
(* The cache: InMemoryCache, and the Redis commands of the same names *)

EmptyMap == [x \in {} |-> 0]

\* d[k] = v (the maps are built with :> and @@, which TLC keeps enumerated)
MapPut(f, k, v) == (k :> v) @@ f

\* del d[k] for every k in ks
MapDrop(f, ks) == [x \in (DOMAIN f) \ ks |-> f[x]] @@ EmptyMap

EmptyCache == [store |-> EmptyMap, plain |-> EmptyMap, expiry |-> EmptyMap]

\* InMemoryCache._cleanup_expired at clock value t
CleanupExpired(c, t) ==
    LET expired == {k \in DOMAIN c.expiry : c.expiry[k] < t}
    IN [store  |-> MapDrop(c.store, expired),
        plain  |-> MapDrop(c.plain, expired),
        expiry |-> MapDrop(c.expiry, expired)]

\* zadd(key, {member: score}) at clock value t
ZAdd(c, key, member, score, t) ==
    LET c1 == CleanupExpired(c, t)
        d  == IF key \in DOMAIN c1.store THEN c1.store[key] ELSE EmptyMap
    IN [c1 EXCEPT !.store = MapPut(c1.store, key, MapPut(d, member, score))]

\* zremrangebyscore(key, min_score, max_score) at clock value t
ZRemRangeByScore(c, key, min_score, max_score, t) ==
    LET c1 == CleanupExpired(c, t)
    IN IF key \notin DOMAIN c1.store THEN c1
       ELSE LET d    == c1.store[key]
                gone == {m \in DOMAIN d : min_score <= d[m] /\ d[m] <= max_score}
            IN [c1 EXCEPT !.store = MapPut(c1.store, key, MapDrop(d, gone))]

\* zcard(key) at clock value t: the cache after the call, and the count
ZCardCache(c, t) == CleanupExpired(c, t)

ZCard(c, key, t) ==
    LET c1 == CleanupExpired(c, t)
    IN IF key \in DOMAIN c1.store THEN Cardinality(DOMAIN c1.store[key]) ELSE 0

\* set(key, value, ttl) at clock value t; ttl = 0 stands for no ttl
CacheSet(c, key, value, ttl, t) ==
    [c EXCEPT !.plain = MapPut(c.plain, key, value),
              !.expiry = IF ttl # 0 THEN MapPut(c.expiry, key, t + ttl)
                         ELSE MapDrop(c.expiry, {key})]

----------------------------------------------------------------------------
(* SecurityMiddleware.check_rate_limit *)

CacheKey(client_ip) == rate_limit_prefix \o client_ip

TtlKey(client_ip) == CacheKey(client_ip) \o <<":ttl">>

WindowStart(current_time) == current_time - rate_limit_window

\* the first queued operation: pipe.zadd(cache_key, {str(current_time): current_time})
OpZAdd(c, client_ip, current_time, t) ==
    ZAdd(c, CacheKey(client_ip), Str(current_time), current_time, t)

\* the second: pipe.zremrangebyscore(cache_key, 0, window_start)
OpZRem(c, client_ip, current_time, t) ==
    ZRemRangeByScore(c, CacheKey(client_ip), 0, WindowStart(current_time), t)

\* the third: pipe.zcard(cache_key)
OpZCard(c, client_ip, t) == ZCard(c, CacheKey(client_ip), t)

\* the fourth: pipe.set(cache_key + ":ttl", "1", ttl = window + 60)
OpSetTtl(c, client_ip, t) ==
    CacheSet(c, TtlKey(client_ip), "1", rate_limit_window + ttl_buffer, t)

\* a limiter that would close on a cache failure
FailClosedResult == FALSE

\* except Exception: ... return True
FailOpenResult == TRUE

\* the decision on the count read back
OverLimit(current_count) == current_count > rate_limit_requests

\* one whole call with nothing interleaved (the queued operations run as one
\* unit): the cache it leaves, the count read back and whether it admits
RateLimitRun(c, client_ip, current_time, t) ==
    LET c1 == OpZAdd(c, client_ip, current_time, t)
        c2 == OpZRem(c1, client_ip, current_time, t)
        n  == OpZCard(c2, client_ip, t)
        c3 == OpSetTtl(ZCardCache(c2, t), client_ip, t)
    IN [cache |-> c3, count |-> n, admit |-> ~OverLimit(n)]

\* one whole check_rate_limit call on its own, the store within reach, on
\* the cache create_cache() built. In memory the queued operations run; on
\* Redis pipe.set(..., ttl=...) raises before anything is executed and the
\* except branch admits.
CheckRateLimit(be, c, client_ip, current_time) ==
    LET run == RateLimitRun(c, client_ip, current_time, current_time)
    IN IF be = "memory"
       THEN [cache |-> run.cache, admit |-> run.admit, faulty |-> FALSE]
       ELSE [cache |-> c, admit |-> FailOpenResult, faulty |-> TRUE]

\* entries of an identity's sorted set whose score lies inside the window at t
LiveEntries(c, client_ip, t) ==
    IF CacheKey(client_ip) \notin DOMAIN c.store THEN {}
    ELSE {m \in DOMAIN c.store[CacheKey(client_ip)] :
            c.store[CacheKey(client_ip)][m] > WindowStart(t)}

----------------------------------------------------------------------------
(* TaskManager: the records and the registry *)

max_retries == 10

\* TaskStatus
QUEUED == "queued"
RUNNING == "running"
COMPLETED == "completed"
FAILED == "failed"
TaskStatus == {QUEUED, RUNNING, COMPLETED, FAILED}

\* started_at / completed_at of a record that has none
NoneTime == 0 - 1

\* what _generate_task_id can produce, and the fallback identifiers
TaskIds == {"t1", "t2"}
FallbackIds == {"fallback-1"}

TThreads == 1..NumThreads

\* TaskRecord(task_id, status=QUEUED, clip_ids, created_at); serial tells the
\* records ever created apart. results and error are << >> for None.
TaskRecord(task_id, clip_ids, created_at, serial) ==
    [task_id |-> task_id, status |-> QUEUED, clip_ids |-> clip_ids,
     created_at |-> created_at, started_at |-> NoneTime,
     completed_at |-> NoneTime, results |-> << >>, error |-> << >>,
     serial |-> serial]

NoTCall == [op |-> "none", task_id |-> "", status |-> "", clip_ids |-> << >>,
            attempt |-> 0, created_at |-> 0, max_age_hours |-> 0, called_at |-> 0,
            cutoff |-> 0, serial |-> 0, obj |-> << >>, data |-> << >>,
            ret |-> << >>]

Requests == 1..MaxRequests

\* a request slot nothing has arrived on yet
NoJob == [via |-> "none", background |-> FALSE, gate |-> "none",
          clip_ids |-> << >>, task_id |-> << >>, pc |-> "none", reply |-> 0,
          idx |-> 0, results |-> << >>, ret |-> << >>, updates |-> << >>]

\* no key
NoKey == [kind |-> "none", clip_id |-> << >>, idx |-> 0]

\* before any operation has run against the store
NoRun == [op |-> "none", clip_id |-> << >>, env |-> "none", before |-> {},
          calls |-> {}, success |-> FALSE, error |-> "", files |-> {},
          needs_chunking |-> FALSE, partial_success |-> FALSE, planned |-> 0,
          duration |-> 0, reply |-> 0, failed_deletions |-> {},
          deleted_files |-> {}, flags |-> {}, segments |-> {}, probed |-> 0]

\* two deployments before their first request
NoTwin == [clock |-> T0, n |-> 0, bursts |-> 0, quiets |-> 0, left |-> 0,
           ip |-> << >>, at |-> 0,
           memory |-> EmptyCache, redis |-> EmptyCache,
           admit |-> [be \in {"memory", "redis"} |-> TRUE]]

\* a runner that is not inside process_clip
NoFlight == [at |-> "idle", clip_id |-> << >>, complete |-> FALSE, calls |-> {},
             peers |-> {}]

Runners == 1..NumRunners

InitExt ==
    /\ twin = NoTwin
    /\ inflight = [r \in Runners |-> NoFlight]
    /\ tasks = EmptyMap
    /\ tpc = [p \in TThreads |-> "idle"]
    /\ tcall = [p \in TThreads |-> NoTCall]
    /\ nops = 0
    /\ jobs = [k \in Requests |-> NoJob]
    /\ nreqs = 0
    /\ touched = {}
    /\ store = {}
    /\ lastrun = NoRun
    /\ nruns = 0

----------------------------------------------------------------------------
(* Workers running check_rate_limit concurrently, one cache command per step *)

NoCall == [ip |-> << >>, current_time |-> 0, count |-> 0, path |-> "none",
           faulty |-> FALSE, admit |-> FALSE]

NoReq == [method |-> "none"]

NoResp == [status |-> 0]

NoSteady == [ip |-> << >>, left |-> 0]

InitShared ==
    /\ now = T0
    /\ ticks = 0
    /\ backend \in {"memory", "redis"}
    /\ cache = EmptyCache
    /\ pc = [p \in Workers |-> "idle"]
    /\ call = [p \in Workers |-> NoCall]
    /\ ncalls = 0
    /\ admitted = [ip \in RateClients |-> << >>]
    /\ phase = "idle"
    /\ req = NoReq
    /\ resp = NoResp
    /\ steady = NoSteady
    /\ InitExt

gate_vars == <<phase, req, resp>>

\* check_rate_limit(client_ip) is entered: current_time = int(time.time())
Call(p, client_ip) ==
    /\ pc[p] = "idle"
    /\ steady.left = 0
    /\ ncalls < MaxCalls
    /\ ncalls' = ncalls + 1
    /\ call' = [call EXCEPT ![p] = [NoCall EXCEPT !.ip = client_ip,
                                                  !.current_time = now]]
    /\ pc' = [pc EXCEPT ![p] = "pipeline"]
    /\ UNCHANGED <<now, ticks, backend, cache, admitted, gate_vars, steady, ext_vars>>

\* pipe = self.cache.pipeline() hands out a pipeline
GetPipeline(p) ==
    /\ pc[p] = "pipeline"
    /\ pc' = [pc EXCEPT ![p] = IF backend = "memory" THEN "x_zadd" ELSE "x_exec"]
    /\ call' = [call EXCEPT ![p].path = "pipeline"]
    /\ UNCHANGED <<now, ticks, backend, cache, ncalls, admitted, gate_vars, steady, ext_vars>>

\* RedisCache.pipeline() caught an error and returned None: the fallback runs
PipelineNone(p) ==
    /\ pc[p] = "pipeline"
    /\ backend = "redis"
    /\ pc' = [pc EXCEPT ![p] = "f_zadd"]
    /\ call' = [call EXCEPT ![p].path = "fallback"]
    /\ UNCHANGED <<now, ticks, backend, cache, ncalls, admitted, gate_vars, steady, ext_vars>>

\* InMemoryPipeline.execute: the loop runs the queued commands one by one,
\* holding no lock
ExecZAdd(p) ==
    /\ pc[p] = "x_zadd"
    /\ cache' = OpZAdd(cache, call[p].ip, call[p].current_time, now)
    /\ pc' = [pc EXCEPT ![p] = "x_zrem"]
    /\ UNCHANGED <<now, ticks, backend, call, ncalls, admitted, gate_vars, steady, ext_vars>>

ExecZRem(p) ==
    /\ pc[p] = "x_zrem"
    /\ cache' = OpZRem(cache, call[p].ip, call[p].current_time, now)
    /\ pc' = [pc EXCEPT ![p] = "x_zcard"]
    /\ UNCHANGED <<now, ticks, backend, call, ncalls, admitted, gate_vars, steady, ext_vars>>

ExecZCard(p) ==
    /\ pc[p] = "x_zcard"
    /\ cache' = ZCardCache(cache, now)
    /\ call' = [call EXCEPT ![p].count = OpZCard(cache, call[p].ip, now)]
    /\ pc' = [pc EXCEPT ![p] = "x_set"]
    /\ UNCHANGED <<now, ticks, backend, ncalls, admitted, gate_vars, steady, ext_vars>>

ExecSet(p) ==
    /\ pc[p] = "x_set"
    /\ cache' = OpSetTtl(cache, call[p].ip, now)
    /\ pc' = [pc EXCEPT ![p] = "decide"]
    /\ UNCHANGED <<now, ticks, backend, call, ncalls, admitted, gate_vars, steady, ext_vars>>

\* A Redis pipeline: zadd, zremrangebyscore and zcard are queued, and then
\* pipe.set(key, "1", ttl=...) raises TypeError, the set of a redis-py
\* pipeline taking ex and px and no ttl (only InMemoryPipeline.set takes ttl).
\* Nothing was sent to the store: except Exception -> return True
ExecRaise(p) ==
    /\ pc[p] = "x_exec"
    /\ call' = [call EXCEPT ![p].faulty = TRUE, ![p].admit = FailOpenResult]
    /\ pc' = [pc EXCEPT ![p] = "return"]
    /\ UNCHANGED <<now, ticks, backend, cache, ncalls, admitted, gate_vars, steady, ext_vars>>

\* current_count = results[2]; if current_count > rate_limit_requests: return False
Decide(p) ==
    /\ pc[p] = "decide"
    /\ call' = [call EXCEPT ![p].admit = ~OverLimit(call[p].count)]
    /\ pc' = [pc EXCEPT ![p] = "return"]
    /\ UNCHANGED <<now, ticks, backend, cache, ncalls, admitted, gate_vars, steady, ext_vars>>

\* _check_rate_limit_fallback: three separate commands, then the decision,
\* then the ttl key
FbZAdd(p) ==
    /\ pc[p] = "f_zadd"
    /\ cache' = OpZAdd(cache, call[p].ip, call[p].current_time, now)
    /\ pc' = [pc EXCEPT ![p] = "f_zrem"]
    /\ UNCHANGED <<now, ticks, backend, call, ncalls, admitted, gate_vars, steady, ext_vars>>

FbZRem(p) ==
    /\ pc[p] = "f_zrem"
    /\ cache' = OpZRem(cache, call[p].ip, call[p].current_time, now)
    /\ pc' = [pc EXCEPT ![p] = "f_zcard"]
    /\ UNCHANGED <<now, ticks, backend, call, ncalls, admitted, gate_vars, steady, ext_vars>>

FbZCard(p) ==
    /\ pc[p] = "f_zcard"
    /\ cache' = ZCardCache(cache, now)
    /\ call' = [call EXCEPT ![p].count = OpZCard(cache, call[p].ip, now)]
    /\ pc' = [pc EXCEPT ![p] = "f_decide"]
    /\ UNCHANGED <<now, ticks, backend, ncalls, admitted, gate_vars, steady, ext_vars>>

FbDecide(p) ==
    /\ pc[p] = "f_decide"
    /\ IF OverLimit(call[p].count)
       THEN /\ call' = [call EXCEPT ![p].admit = FALSE]
            /\ pc' = [pc EXCEPT ![p] = "return"]
       ELSE /\ call' = [call EXCEPT ![p].admit = TRUE]
            /\ pc' = [pc EXCEPT ![p] = "f_set"]
    /\ UNCHANGED <<now, ticks, backend, cache, ncalls, admitted, gate_vars, steady, ext_vars>>

FbSet(p) ==
    /\ pc[p] = "f_set"
    /\ cache' = OpSetTtl(cache, call[p].ip, now)
    /\ pc' = [pc EXCEPT ![p] = "return"]
    /\ UNCHANGED <<now, ticks, backend, call, ncalls, admitted, gate_vars, steady, ext_vars>>

\* a RedisCache command of the fallback failed: the wrapper logs the error and
\* returns 0 (False for set), the store is left as it was
FbFault(p) ==
    /\ pc[p] \in {"f_zadd", "f_zrem", "f_zcard", "f_set"}
    /\ call' = [call EXCEPT ![p].faulty = TRUE,
                            ![p].count = IF pc[p] = "f_zcard" THEN 0 ELSE @]
    /\ pc' = [pc EXCEPT ![p] = CASE pc[p] = "f_zadd"  -> "f_zrem"
                                 [] pc[p] = "f_zrem"  -> "f_zcard"
                                 [] pc[p] = "f_zcard" -> "f_decide"
                                 [] pc[p] = "f_set"   -> "return"]
    /\ UNCHANGED <<now, ticks, backend, cache, ncalls, admitted, gate_vars, steady, ext_vars>>

\* the call returns; an admission decided by the count is written to the history
Return(p) ==
    /\ pc[p] = "return"
    /\ admitted' = IF call[p].admit /\ ~call[p].faulty
                   THEN [admitted EXCEPT ![call[p].ip] = Append(@, now)]
                   ELSE admitted
    /\ pc' = [pc EXCEPT ![p] = "idle"]
    /\ call' = [call EXCEPT ![p] = NoCall]
    /\ UNCHANGED <<now, ticks, backend, cache, ncalls, gate_vars, steady, ext_vars>>

\* the clock advances: by a second, or by a whole window without a request
TickSteps == {1, rate_limit_window}

Tick(d) ==
    /\ ticks < MaxTicks
    /\ steady.left = 0
    /\ ticks' = ticks + 1
    /\ now' = now + d
    /\ UNCHANGED <<backend, cache, pc, call, ncalls, admitted, gate_vars, steady, ext_vars>>

\* Steady traffic of one identity: one request in each of the next
\* rate_limit_requests seconds. It starts while no call is in flight, and no
\* other request arrives until it is over.
SteadyStart(client_ip) ==
    /\ steady.left = 0
    /\ \A p \in Workers : pc[p] = "idle"
    /\ phase = "idle"
    /\ now - T0 < rate_limit_requests
    /\ steady' = [ip |-> client_ip, left |-> rate_limit_requests]
    /\ UNCHANGED <<now, ticks, backend, cache, pc, call, ncalls, admitted, gate_vars, ext_vars>>

\* one round of it: check_rate_limit runs alone against a healthy store, then
\* a second passes
SteadyStep ==
    /\ steady.left > 0
    /\ LET r == CheckRateLimit(backend, cache, steady.ip, now)
       IN /\ cache' = r.cache
          /\ admitted' = IF r.admit /\ ~r.faulty
                         THEN [admitted EXCEPT ![steady.ip] = Append(@, now)]
                         ELSE admitted
    /\ now' = now + 1
    /\ steady' = [steady EXCEPT !.left = @ - 1]
    /\ UNCHANGED <<ticks, backend, pc, call, ncalls, gate_vars, ext_vars>>

NextRate ==
    \/ \E p \in Workers, ip \in RateClients : Call(p, ip)
    \/ \E p \in Workers : GetPipeline(p)
    \/ \E p \in Workers : PipelineNone(p)
    \/ \E p \in Workers : ExecZAdd(p)
    \/ \E p \in Workers : ExecZRem(p)
    \/ \E p \in Workers : ExecZCard(p)
    \/ \E p \in Workers : ExecSet(p)
    \/ \E p \in Workers : ExecRaise(p)
    \/ \E p \in Workers : Decide(p)
    \/ \E p \in Workers : FbZAdd(p)
    \/ \E p \in Workers : FbZRem(p)
    \/ \E p \in Workers : FbZCard(p)
    \/ \E p \in Workers : FbDecide(p)
    \/ \E p \in Workers : FbSet(p)
    \/ \E p \in Workers : FbFault(p)
    \/ \E p \in Workers : Return(p)
    \/ \E d \in TickSteps : Tick(d)
    \/ \E ip \in RateClients : SteadyStart(ip)
    \/ SteadyStep

SpecRate == InitShared /\ [][NextRate]_vars

----------------------------------------------------------------------------
(* Header values, int() and the regular expressions *)

\* headers.get(name) of a missing header
NoneVal == <<"<None>">>

\* Python truthiness of headers.get(...): None and '' are falsy
Truthy(v) == v # NoneVal /\ v # << >>

HeaderGet(headers, name) == IF name \in DOMAIN headers THEN headers[name] ELSE NoneVal

\* a or b
Either(a, b) == IF Truthy(a) THEN a ELSE b

DigitChars == {Digits[i] : i \in 1..10}
AlnumChars == DigitChars \cup {"a", "k", "z", "A", "Z"}
NonAsciiChars == {"\\xe9"}

DigitValue(ch) == CHOOSE i \in 0..9 : Digits[i + 1] = ch

RECURSIVE NatValue(_)
NatValue(s) == IF Len(s) = 0 THEN 0
               ELSE 10 * NatValue(SubSeq(s, 1, Len(s) - 1)) + DigitValue(s[Len(s)])

AllIn(s, chars) == \A i \in 1..Len(s) : s[i] \in chars

\* int(s): an optional sign, then decimal digits; anything else is a ValueError
IntParses(s) ==
    LET body == IF Len(s) > 0 /\ s[1] \in {"+", "-"} THEN Tail(s) ELSE s
    IN Len(body) > 0 /\ AllIn(body, DigitChars)

IntValue(s) ==
    IF s[1] = "-" THEN 0 - NatValue(Tail(s))
    ELSE IF s[1] = "+" THEN NatValue(Tail(s))
    ELSE NatValue(s)

\* re.match(r'^[chars]{lo,hi}$', s): $ also matches before one final newline
ReMatch(s, chars, lo, hi) ==
    \E n \in lo..hi :
        /\ n <= Len(s)
        /\ AllIn(SubSeq(s, 1, n), chars)
        /\ \/ Len(s) = n
           \/ Len(s) = n + 1 /\ s[n + 1] = "\n"

Abs(x) == IF x < 0 THEN 0 - x ELSE x

----------------------------------------------------------------------------
(* SecurityMiddleware: signature, idempotency key, client identity *)

hmac_secret == <<"s", "e", "c", "r", "e", "t">>

nonce_min == 16
nonce_max == 64
idem_min == 16
idem_max == 64

\* hmac.new(key, payload, sha256).hexdigest(): an injective image of the key
\* and the payload (no two inputs of the model share a digest)
HexDigest(key, payload) == <<"hmac[">> \o key \o <<"|">> \o payload \o <<"]">>

\* _create_signature(body, timestamp, nonce)
CreateSignature(body, timestamp, nonce) ==
    HexDigest(hmac_secret, body \o timestamp \o nonce)

\* a freshness test that already rejects at the boundary
ExpiredAtBoundary(current_time, timestamp_int) ==
    Abs(current_time - timestamp_int) >= nonce_expiry

\* the freshness test on a parsed timestamp
Expired(current_time, timestamp_int) == Abs(current_time - timestamp_int) > nonce_expiry

\* the nonce pattern ^[a-zA-Z0-9]{16,64}$
NonceOk(nonce) == ReMatch(nonce, AlnumChars, nonce_min, nonce_max)

\* hmac.compare_digest(a, b) raises TypeError on a str that is not ASCII
CompareRaises(a, b) ==
    \/ \E i \in 1..Len(a) : a[i] \in NonAsciiChars
    \/ \E i \in 1..Len(b) : b[i] \in NonAsciiChars

\* validate_hmac_signature(request_body, headers) at clock value t: what it
\* returns ("True", "False", or "TypeError" when compare_digest raises) and
\* the warning it logs
ValidateHmacSignature(request_body, headers, t) ==
    LET signature == Either(HeaderGet(headers, "X-Request-Signature"),
                            HeaderGet(headers, "x-request-signature"))
        timestamp == Either(HeaderGet(headers, "X-Request-Timestamp"),
                            HeaderGet(headers, "x-request-timestamp"))
        nonce     == Either(HeaderGet(headers, "X-Request-Nonce"),
                            HeaderGet(headers, "x-request-nonce"))
    IN IF ~(Truthy(signature) /\ Truthy(timestamp) /\ Truthy(nonce))
       THEN [result |-> "False", log |-> "Missing required security headers"]
       ELSE IF ~IntParses(timestamp)
       THEN [result |-> "False", log |-> "Invalid timestamp format"]
       ELSE IF Expired(t, IntValue(timestamp))
       THEN [result |-> "False", log |-> "Request timestamp expired"]
       ELSE IF ~NonceOk(nonce)
       THEN [result |-> "False", log |-> "Invalid nonce format"]
       ELSE IF CompareRaises(signature, CreateSignature(request_body, timestamp, nonce))
       THEN [result |-> "TypeError", log |-> "none"]
       ELSE IF signature # CreateSignature(request_body, timestamp, nonce)
       THEN [result |-> "False", log |-> "HMAC signature validation failed"]
       ELSE [result |-> "True", log |-> "none"]

\* validate_idempotency(idempotency_key): ^[a-zA-Z0-9\-]{16,64}$
ValidateIdempotency(idempotency_key) ==
    /\ Truthy(idempotency_key)
    /\ ReMatch(idempotency_key, AlnumChars \cup {"-"}, idem_min, idem_max)

\* x_forwarded_for.split(',')[0].strip()
RECURSIVE UpToComma(_)
UpToComma(s) == IF Len(s) = 0 \/ Head(s) = "," THEN << >>
                ELSE <<Head(s)>> \o UpToComma(Tail(s))

RECURSIVE LStrip(_)
LStrip(s) == IF Len(s) > 0 /\ Head(s) = " " THEN LStrip(Tail(s)) ELSE s

RECURSIVE RStrip(_)
RStrip(s) == IF Len(s) > 0 /\ s[Len(s)] = " " THEN RStrip(SubSeq(s, 1, Len(s) - 1)) ELSE s

FirstHop(x_forwarded_for) == RStrip(LStrip(UpToComma(x_forwarded_for)))

\* get_client_ip(headers)
GetClientIp(headers) ==
    IF Truthy(HeaderGet(headers, "CF-Connecting-IP"))
    THEN HeaderGet(headers, "CF-Connecting-IP")
    ELSE IF Truthy(HeaderGet(headers, "X-Forwarded-For"))
    THEN FirstHop(HeaderGet(headers, "X-Forwarded-For"))
    ELSE IF Truthy(HeaderGet(headers, "X-Real-IP"))
    THEN HeaderGet(headers, "X-Real-IP")
    ELSE Unknown

----------------------------------------------------------------------------
(* check_rate_limit as one call, for the handler that runs it inline *)

\* _check_rate_limit_fallback with every command answered
FallbackRun(c, client_ip, current_time, t) ==
    LET c1 == OpZAdd(c, client_ip, current_time, t)
        c2 == OpZRem(c1, client_ip, current_time, t)
        n  == OpZCard(c2, client_ip, t)
        c3 == ZCardCache(c2, t)
    IN IF OverLimit(n)
       THEN [cache |-> c3, count |-> n, admit |-> FALSE]
       ELSE [cache |-> OpSetTtl(c3, client_ip, t), count |-> n, admit |-> TRUE]

\* What one call of check_rate_limit can do to the cache c of kind be: the
\* in-memory cache always answers; with Redis the pipeline is handed out, and
\* its set raises, or it is not (fallback), and then the store may answer or
\* be out of reach for the whole call.
LimiterOutcomes(c, be, client_ip, t) ==
    LET run == RateLimitRun(c, client_ip, t, t)
        fb  == FallbackRun(c, client_ip, t, t)
        piped  == [cache |-> run.cache, admit |-> run.admit,
                   path |-> "pipeline", faulty |-> FALSE]
        raised == [cache |-> c, admit |-> FailOpenResult,
                   path |-> "pipeline", faulty |-> TRUE]
        fell   == [cache |-> fb.cache, admit |-> fb.admit,
                   path |-> "fallback", faulty |-> FALSE]
        \* every wrapped command fails and answers 0 (a command that raised
        \* instead would end in the fallback's own except: the same outcome)
        failed == [cache |-> c, admit |-> ~OverLimit(0),
                   path |-> "fallback", faulty |-> TRUE]
    IN IF be = "memory" THEN {piped} ELSE {raised, fell, failed}

----------------------------------------------------------------------------
(* SecurityMiddleware.validate_request and the handler's answer *)

\* validate_request(method, path, headers, body) at clock value t, given what
\* check_rate_limit did (lim). hmac is what validate_hmac_signature did:
\* "True", "False", "TypeError" (raised) or "skipped" (never called).
ValidateRequest(method, headers, body, lim, t) ==
    LET h == ValidateHmacSignature(body, headers, t)
        idempotency_key == Either(HeaderGet(headers, "X-Idempotency-Key"),
                                  HeaderGet(headers, "x-idempotency-key"))
    IN IF ~lim.admit
       THEN [valid |-> FALSE, reason |-> "Rate limit exceeded",
             raised |-> FALSE, hmac |-> "skipped", log |-> "Rate limit exceeded"]
       ELSE IF method = "OPTIONS"
       THEN [valid |-> TRUE, reason |-> "", raised |-> FALSE,
             hmac |-> "skipped", log |-> "none"]
       ELSE IF h.result = "TypeError"
       THEN [valid |-> FALSE, reason |-> "", raised |-> TRUE,
             hmac |-> h.result, log |-> h.log]
       ELSE IF h.result = "False"
       THEN [valid |-> FALSE, reason |-> "HMAC validation failed",
             raised |-> FALSE, hmac |-> h.result, log |-> h.log]
       ELSE IF method = "POST" /\ ~ValidateIdempotency(idempotency_key)
       THEN [valid |-> FALSE, reason |-> "Invalid idempotency key",
             raised |-> FALSE, hmac |-> h.result, log |-> "Invalid idempotency key"]
       ELSE [valid |-> TRUE, reason |-> "", raised |-> FALSE,
             hmac |-> h.result, log |-> "none"]

\* a handler that never recognises the rate-limit reason
MentionsNothing(error_message) == FALSE

\* "Rate limit exceeded" in error_message
MentionsRateLimit(error_message) == error_message = "Rate limit exceeded"

\* The status do_GET / do_POST answer with after validate_request returned v.
\* 200 stands for "handed on to the endpoint"; 0 for no answer at all: an
\* exception leaves do_GET, and no handler method calls validate_request
\* with another method.
HandlerStatus(method, v) ==
    IF method = "GET"
    THEN IF v.raised THEN 0
         ELSE IF ~v.valid THEN (IF MentionsRateLimit(v.reason) THEN 429 ELSE 401)
         ELSE 200
    ELSE IF method = "POST"
    THEN IF v.raised THEN 500
         ELSE IF ~v.valid THEN (IF MentionsRateLimit(v.reason) THEN 429 ELSE 401)
         ELSE 200
    ELSE 0

----------------------------------------------------------------------------
(* The requests the model sends *)

Methods == {"GET", "POST", "DELETE", "OPTIONS"}
Styles == {"canonical", "lower", "upper"}
SigKinds == {"absent", "valid", "wrong", "nonascii"}
TsKinds == {"absent", "text", "old301", "old300", "now", "new300", "new301"}
NonceKinds == {"absent", "len15", "len16", "len64", "len65", "hyphen"}
IdemKinds == {"absent", "len15", "dashed16", "len64", "len65", "underscore"}

AllDescriptors ==
    [method : Methods, style : Styles, sig : SigKinds, ts : TsKinds,
     nonce : NonceKinds, idem : IdemKinds]

\* The request a correct client sends, and how far a request is from it
Baseline == [style |-> "canonical", sig |-> "valid", ts |-> "now",
             nonce |-> "len16", idem |-> "dashed16"]

Deviations(d) == Cardinality({f \in DOMAIN Baseline : d[f] # Baseline[f]})

Descriptors == {d \in AllDescriptors : Deviations(d) <= MaxDeviations}

\* the header name as the client spells it
HeaderName(base, style) ==
    CASE base = "sig" ->
           (CASE style = "canonical" -> "X-Request-Signature"
              [] style = "lower"     -> "x-request-signature"
              [] style = "upper"     -> "X-REQUEST-SIGNATURE")
      [] base = "ts" ->
           (CASE style = "canonical" -> "X-Request-Timestamp"
              [] style = "lower"     -> "x-request-timestamp"
              [] style = "upper"     -> "X-REQUEST-TIMESTAMP")
      [] base = "nonce" ->
           (CASE style = "canonical" -> "X-Request-Nonce"
              [] style = "lower"     -> "x-request-nonce"
              [] style = "upper"     -> "X-REQUEST-NONCE")
      [] base = "idem" ->
           (CASE style = "canonical" -> "X-Idempotency-Key"
              [] style = "lower"     -> "x-idempotency-key"
              [] style = "upper"     -> "X-IDEMPOTENCY-KEY")

TsOffset(kind) ==
    CASE kind = "now"    -> 0
      [] kind = "old301" -> 0 - (nonce_expiry + 1)
      [] kind = "old300" -> 0 - nonce_expiry
      [] kind = "new300" -> nonce_expiry
      [] kind = "new301" -> nonce_expiry + 1

TsValue(kind, t) ==
    IF kind = "text" THEN <<"1", "2", "z">> ELSE Str(t + TsOffset(kind))

NonceValue(kind) ==
    CASE kind = "len15"  -> Rep("a", nonce_min - 1)
      [] kind = "len16"  -> Rep("a", nonce_min)
      [] kind = "len64"  -> Rep("a", nonce_max)
      [] kind = "len65"  -> Rep("a", nonce_max + 1)
      [] kind = "hyphen" -> Rep("a", nonce_min - 1) \o <<"-">>

IdemValue(kind) ==
    CASE kind = "len15"      -> Rep("k", idem_min - 1)
      [] kind = "dashed16"   -> Rep("k", idem_min - 1) \o <<"-">>
      [] kind = "len64"      -> Rep("k", idem_max)
      [] kind = "len65"      -> Rep("k", idem_max + 1)
      [] kind = "underscore" -> Rep("k", idem_min) \o <<"_">>

BodyOf(method) == IF method = "POST" THEN <<"{", "}">> ELSE << >>

\* create_signature of the client (test_security.py): the digest of
\* body + timestamp + nonce under the shared secret
ClientSignature(body, timestamp, nonce) ==
    HexDigest(hmac_secret, body \o timestamp \o nonce)

Field(present, name, value) == IF present THEN (name :> value) ELSE EmptyMap

\* the headers of the request described by d, sent at clock value t
HeadersOf(d, t) ==
    LET tsv    == IF d.ts = "absent" THEN << >> ELSE TsValue(d.ts, t)
        noncev == IF d.nonce = "absent" THEN << >> ELSE NonceValue(d.nonce)
        body   == BodyOf(d.method)
        sigv   == CASE d.sig = "valid"    -> ClientSignature(body, tsv, noncev)
                    [] d.sig = "wrong"    -> HexDigest(<<"o", "t", "h", "e", "r">>,
                                                       body \o tsv \o noncev)
                    [] d.sig = "nonascii" -> <<"\\xe9">>
                    [] d.sig = "absent"   -> << >>
    IN Field(d.sig # "absent", HeaderName("sig", d.style), sigv)
       @@ Field(d.ts # "absent", HeaderName("ts", d.style), tsv)
       @@ Field(d.nonce # "absent", HeaderName("nonce", d.style), noncev)
       @@ Field(d.idem # "absent", HeaderName("idem", d.style),
                IF d.idem = "absent" THEN << >> ELSE IdemValue(d.idem))

----------------------------------------------------------------------------
(* The handler serving requests one at a time *)

\* A request reaches validate_request: through do_GET or do_POST, or from a
\* caller that passes another method. The limiter runs inline.
Request(d) ==
    /\ phase = "idle"
    /\ steady.left = 0
    /\ LET headers == HeadersOf(d, now)
           body    == BodyOf(d.method)
       IN \E lim \in LimiterOutcomes(cache, backend, GetClientIp(headers), now) :
            LET v == ValidateRequest(d.method, headers, body, lim, now)
            IN /\ cache' = lim.cache
               /\ req' = [desc |-> d, at |-> now]
               /\ resp' = [valid |-> v.valid, reason |-> v.reason,
                           raised |-> v.raised, hmac |-> v.hmac, log |-> v.log,
                           status |-> HandlerStatus(d.method, v),
                           admit |-> lim.admit, path |-> lim.path,
                           faulty |-> lim.faulty]
    /\ phase' = "responded"
    /\ UNCHANGED <<now, ticks, backend, pc, call, ncalls, admitted, steady, ext_vars>>

\* the answer is out; the handler returns
Finish ==
    /\ phase = "responded"
    /\ phase' = "idle"
    /\ req' = NoReq
    /\ resp' = NoResp
    /\ UNCHANGED <<now, ticks, backend, cache, pc, call, ncalls, admitted, steady, ext_vars>>

Next ==
    \/ \E d \in Descriptors : Request(d)
    \/ Finish
    \/ SteadyStart(Unknown)
    \/ SteadyStep

Spec == InitShared /\ [][Next]_vars

----------------------------------------------------------------------------
(* TaskManager operations *)

Terminal == {COMPLETED, FAILED}

\* a registry that stamps the times on every update
StampAlways(task, status, t) ==
    IF status = RUNNING THEN [task EXCEPT !.started_at = t]
    ELSE IF status \in Terminal THEN [task EXCEPT !.completed_at = t]
    ELSE task

\* update_task_status: started_at / completed_at, set when still None
StampTimes(task, status, t) ==
    IF status = RUNNING /\ task.started_at = NoneTime
    THEN [task EXCEPT !.started_at = t]
    ELSE IF status \in Terminal /\ task.completed_at = NoneTime
    THEN [task EXCEPT !.completed_at = t]
    ELSE task

\* update_task_status as it would be if it stored a new record for a task
\* that is not in the registry
UpsertTaskStatus(ts, task_id, status, results, error, t) ==
    LET old == IF task_id \in DOMAIN ts THEN ts[task_id]
               ELSE TaskRecord(task_id, << >>, t, 0)
        t1 == StampTimes([old EXCEPT !.status = status], status, t)
        t2 == IF results # << >> THEN [t1 EXCEPT !.results = results] ELSE t1
        t3 == IF error # << >> THEN [t2 EXCEPT !.error = error] ELSE t2
    IN [tasks |-> MapPut(ts, task_id, t3), ret |-> TRUE]

\* update_task_status(task_id, status, results, error) at clock value t; the
\* whole body runs under the lock
UpdateTaskStatus(ts, task_id, status, results, error, t) ==
    IF task_id \notin DOMAIN ts
    THEN [tasks |-> ts, ret |-> FALSE]
    ELSE LET t1 == StampTimes([ts[task_id] EXCEPT !.status = status], status, t)
             t2 == IF results # << >> THEN [t1 EXCEPT !.results = results] ELSE t1
             t3 == IF error # << >> THEN [t2 EXCEPT !.error = error] ELSE t2
         IN [tasks |-> MapPut(ts, task_id, t3), ret |-> TRUE]

\* cutoff_time = now - max_age_hours * 3600
CutoffTime(t, max_age_hours) == t - max_age_hours * 3600

\* a sweep that looks at the age only
TasksToRemoveByAge(ts, cutoff_time) ==
    {task_id \in DOMAIN ts : ts[task_id].created_at < cutoff_time}

\* cleanup_old_tasks: tasks_to_remove
TasksToRemove(ts, cutoff_time) ==
    {task_id \in DOMAIN ts :
        /\ ts[task_id].status \in Terminal
        /\ ts[task_id].created_at < cutoff_time}

\* delete_task(task_id)
DeleteTask(ts, task_id) ==
    IF task_id \in DOMAIN ts
    THEN [tasks |-> MapDrop(ts, {task_id}), ret |-> TRUE]
    ELSE [tasks |-> ts, ret |-> FALSE]

----------------------------------------------------------------------------
(* Threads calling the TaskManager. A block under "with self._lock" is one
   step; what create_task does before it takes the lock is not. *)

\* create_task(clip_ids) is called
TCreateBegin(p, clip_ids) ==
    /\ tpc[p] = "idle"
    /\ nops < MaxOps
    /\ nops' = nops + 1
    /\ tcall' = [tcall EXCEPT ![p] = [NoTCall EXCEPT !.op = "create",
                                       !.clip_ids = clip_ids, !.serial = nops + 1]]
    /\ tpc' = [tpc EXCEPT ![p] = "generate"]
    /\ UNCHANGED <<sec_vars, run_vars, store_vars, api_vars, tasks>>

\* one round of _generate_unique_task_id: an identifier is generated and
\* looked up in _tasks, without the lock; a free one is kept and the record
\* is built, a taken one costs an attempt
TGenerate(p, task_id) ==
    /\ tpc[p] = "generate"
    /\ IF task_id \notin DOMAIN tasks
       THEN /\ tcall' = [tcall EXCEPT ![p].task_id = task_id, ![p].created_at = now]
            /\ tpc' = [tpc EXCEPT ![p] = "store"]
       ELSE /\ tcall' = [tcall EXCEPT ![p].attempt = @ + 1]
            /\ tpc' = [tpc EXCEPT ![p] =
                         IF tcall[p].attempt + 1 < max_retries
                         THEN "generate" ELSE "fallback"]
    /\ UNCHANGED <<sec_vars, run_vars, store_vars, api_vars, tasks, nops>>

\* the retries are used up: a fallback identifier, or RuntimeError
TFallback(p, fallback_id) ==
    /\ tpc[p] = "fallback"
    /\ IF fallback_id \in DOMAIN tasks
       THEN /\ tcall' = [tcall EXCEPT ![p].ret = <<"RuntimeError">>]
            /\ tpc' = [tpc EXCEPT ![p] = "done"]
       ELSE /\ tcall' = [tcall EXCEPT ![p].task_id = fallback_id,
                                      ![p].created_at = now]
            /\ tpc' = [tpc EXCEPT ![p] = "store"]
    /\ UNCHANGED <<sec_vars, run_vars, store_vars, api_vars, tasks, nops>>

\* with self._lock: self._tasks[task_id] = task_record; the call returns
TStore(p) ==
    /\ tpc[p] = "store"
    /\ tasks' = MapPut(tasks, tcall[p].task_id,
                       TaskRecord(tcall[p].task_id, tcall[p].clip_ids,
                                  tcall[p].created_at, tcall[p].serial))
    /\ tcall' = [tcall EXCEPT ![p] = NoTCall]
    /\ tpc' = [tpc EXCEPT ![p] = "idle"]
    /\ UNCHANGED <<sec_vars, run_vars, store_vars, api_vars, nops>>

\* update_task_status(task_id, status, ...), with results on completion and
\* an error on failure as the runner passes them; one step, call to return
TUpdate(p, task_id, status) ==
    /\ tpc[p] = "idle"
    /\ nops < MaxOps
    /\ nops' = nops + 1
    /\ tasks' = UpdateTaskStatus(tasks, task_id, status,
                                 IF status = COMPLETED THEN <<"results">> ELSE << >>,
                                 IF status = FAILED THEN <<"error">> ELSE << >>,
                                 now).tasks
    /\ UNCHANGED <<sec_vars, run_vars, store_vars, api_vars, tpc, tcall>>

MaxAges == {0, 1}

\* cleanup_old_tasks(max_age_hours) is called: the cutoff is computed first
TSweepBegin(p, max_age_hours) ==
    /\ tpc[p] = "idle"
    /\ nops < MaxOps
    /\ nops' = nops + 1
    /\ tcall' = [tcall EXCEPT ![p] = [NoTCall EXCEPT !.op = "sweep",
                                       !.max_age_hours = max_age_hours,
                                       !.called_at = now,
                                       !.cutoff = CutoffTime(now, max_age_hours)]]
    /\ tpc' = [tpc EXCEPT ![p] = "sweep"]
    /\ UNCHANGED <<sec_vars, run_vars, store_vars, api_vars, tasks>>

\* with self._lock: collect and delete
TSweepRun(p) ==
    /\ tpc[p] = "sweep"
    /\ LET tasks_to_remove == TasksToRemove(tasks, tcall[p].cutoff)
       IN /\ tasks' = MapDrop(tasks, tasks_to_remove)
          /\ tcall' = [tcall EXCEPT ![p].ret = <<Cardinality(tasks_to_remove)>>]
    /\ tpc' = [tpc EXCEPT ![p] = "done"]
    /\ UNCHANGED <<sec_vars, run_vars, store_vars, api_vars, nops>>

\* delete_task(task_id); one step, call to return
TDelete(p, task_id) ==
    /\ tpc[p] = "idle"
    /\ nops < MaxOps
    /\ nops' = nops + 1
    /\ tasks' = DeleteTask(tasks, task_id).tasks
    /\ UNCHANGED <<sec_vars, run_vars, store_vars, api_vars, tpc, tcall>>

\* GET /task/{task_id}: get_task(task_id) looks the record up under the lock
\* and hands out the stored TaskRecord itself; None ends the request
TGetBegin(p, task_id) ==
    /\ tpc[p] = "idle"
    /\ nops < MaxOps
    /\ nops' = nops + 1
    /\ IF task_id \in DOMAIN tasks
       THEN /\ tcall' = [tcall EXCEPT ![p] = [NoTCall EXCEPT !.op = "get",
                                              !.task_id = task_id,
                                              !.serial = tasks[task_id].serial,
                                              !.obj = <<tasks[task_id]>>]]
            /\ tpc' = [tpc EXCEPT ![p] = "asdict"]
       ELSE /\ tcall' = [tcall EXCEPT ![p] = [NoTCall EXCEPT !.op = "get",
                                              !.task_id = task_id,
                                              !.ret = << >>]]
            /\ tpc' = [tpc EXCEPT ![p] = "done"]
    /\ UNCHANGED <<sec_vars, run_vars, store_vars, api_vars, tasks>>

\* the TaskRecord a reader holds, as it is now: the stored one while it is
\* stored; once it is removed from _tasks nothing assigns to it any more
HeldRecord(p) ==
    IF /\ tcall[p].task_id \in DOMAIN tasks
       /\ tasks[tcall[p].task_id].serial = tcall[p].serial
    THEN tasks[tcall[p].task_id]
    ELSE tcall[p].obj[1]

\* to_dict, first line: data = asdict(self) copies the fields, lock not held
TAsDict(p) ==
    /\ tpc[p] = "asdict"
    /\ tcall' = [tcall EXCEPT ![p].obj = <<HeldRecord(p)>>,
                              ![p].data = <<HeldRecord(p)>>]
    /\ tpc' = [tpc EXCEPT ![p] = "to_dict"]
    /\ UNCHANGED <<sec_vars, run_vars, store_vars, api_vars, tasks, nops>>

\* to_dict, the rest: status is read from the record again, and so are
\* started_at and completed_at when they are set; the dictionary is returned
TToDict(p) ==
    /\ tpc[p] = "to_dict"
    /\ LET self == HeldRecord(p)
           data == tcall[p].data[1]
           d1 == [data EXCEPT !.status = self.status]
           d2 == IF self.started_at # NoneTime
                 THEN [d1 EXCEPT !.started_at = self.started_at] ELSE d1
           d3 == IF self.completed_at # NoneTime
                 THEN [d2 EXCEPT !.completed_at = self.completed_at] ELSE d2
       IN tcall' = [tcall EXCEPT ![p].obj = <<self>>, ![p].data = <<d3>>,
                                 ![p].ret = <<d3>>]
    /\ tpc' = [tpc EXCEPT ![p] = "done"]
    /\ UNCHANGED <<sec_vars, run_vars, store_vars, api_vars, tasks, nops>>

\* the call returns
TReturn(p) ==
    /\ tpc[p] = "done"
    /\ tpc' = [tpc EXCEPT ![p] = "idle"]
    /\ tcall' = [tcall EXCEPT ![p] = NoTCall]
    /\ UNCHANGED <<sec_vars, run_vars, store_vars, api_vars, tasks, nops>>

ElapseSteps == {1, 3600}

\* time passes
Elapse(d) ==
    /\ ticks < MaxElapse
    /\ now' = now + d
    /\ ticks' = ticks + 1
    /\ UNCHANGED <<backend, cache, pc, call, ncalls, admitted, gate_vars, steady, ext_vars>>

ClipLists == {<<"c1", "c2">>}

NextTasks ==
    \/ \E p \in TThreads, clip_ids \in ClipLists : TCreateBegin(p, clip_ids)
    \/ \E p \in TThreads, task_id \in TaskIds : TGenerate(p, task_id)
    \/ \E p \in TThreads, fallback_id \in FallbackIds : TFallback(p, fallback_id)
    \/ \E p \in TThreads : TStore(p)
    \/ \E p \in TThreads, task_id \in TaskIds, status \in TaskStatus :
          TUpdate(p, task_id, status)
    \/ \E p \in TThreads, max_age_hours \in MaxAges : TSweepBegin(p, max_age_hours)
    \/ \E p \in TThreads : TSweepRun(p)
    \/ \E p \in TThreads, task_id \in TaskIds : TDelete(p, task_id)
    \/ \E p \in TThreads, task_id \in TaskIds : TGetBegin(p, task_id)
    \/ \E p \in TThreads : TAsDict(p)
    \/ \E p \in TThreads : TToDict(p)
    \/ \E p \in TThreads : TReturn(p)
    \/ \E d \in ElapseSteps : Elapse(d)

InitTasks == InitShared /\ backend = "memory"

SpecTasks == InitTasks /\ [][NextTasks]_vars

----------------------------------------------------------------------------
(* Clip identifiers and their validation *)

max_clips_per_request == 10
handler_max_clips == 10
clip_id_max_len == 50

\* str.strip(): leading and trailing whitespace removed
Whitespace == {" ", "\t", "\n"}

Strip(s) ==
    LET keep == {i \in 1..Len(s) : s[i] \notin Whitespace}
    IN IF keep = {} THEN << >>
       ELSE SubSeq(s, CHOOSE i \in keep : \A j \in keep : i <= j,
                      CHOOSE i \in keep : \A j \in keep : j <= i)

\* [A-Za-z0-9_-]
ClipIdChars == AlnumChars \cup {"_", "-"}

\* validate_clip_ids, one identifier: not blank after strip(), and the
\* stripped text matches ^[A-Za-z0-9_-]+$
ApiClipIdOk(clip_id) ==
    /\ Len(Strip(clip_id)) > 0
    /\ ReMatch(Strip(clip_id), ClipIdChars, 1, Len(clip_id))

\* len(clip_ids) > 10, as the mistaken comparison would have it
TooManyOffByOne(clip_ids) == Len(clip_ids) > max_clips_per_request + 1

\* len(clip_ids) > 10
TooMany(clip_ids) == Len(clip_ids) > max_clips_per_request

\* validate_clip_ids(clip_ids): nothing, or HTTPException(400)
ValidateClipIds(clip_ids) ==
    IF Len(clip_ids) = 0 THEN [ok |-> FALSE, detail |-> "No clip IDs provided"]
    ELSE IF TooMany(clip_ids)
    THEN [ok |-> FALSE, detail |-> "Maximum 10 clips per request"]
    ELSE IF \E i \in 1..Len(clip_ids) : ~ApiClipIdOk(clip_ids[i])
    THEN [ok |-> FALSE, detail |-> "Invalid clip ID(s)"]
    ELSE [ok |-> TRUE, detail |-> ""]

\* validate_clip_id(clip_id) of the serverless handler: the identifier is
\* trimmed, the trimmed text is matched against ^[a-zA-Z0-9_-]{1,50}$, and
\* the trimmed text is what the caller gets back; ValueError otherwise
ValidateClipId(clip_id) ==
    LET trimmed_clip_id == Strip(clip_id)
    IN [ok |-> /\ Len(trimmed_clip_id) > 0
               /\ ReMatch(trimmed_clip_id, ClipIdChars, 1, clip_id_max_len),
        clip_id |-> trimmed_clip_id]

----------------------------------------------------------------------------
(* The clips of the model and what the toolchain does with each *)

ClipFine == <<"a", "1">>
ClipMissing == <<"k", "1">>
ClipStuck == <<"z", "1">>
ClipSlow == <<"A", "_", "1">>
ClipLong == <<"Z", "-", "1">>
ClipLongStuck == <<"Z", "-", "2">>
ClipBreaks == <<"k", "2">>
ClipPadded == <<" ", "a", "1", " ">>
ClipSlash == <<"a", "/", "1">>
ClipNewline == <<"a", "1", "\n">>
ClipOverlong == Rep("a", clip_id_max_len + 1)

\* a clip nothing goes wrong with
Smooth == [download |-> "ok", probe |-> "short", transcode |-> "ok",
           wav |-> "ok", split |-> "ok", stdout |-> "ok"]

\* how the download, the duration probe, the two transcodes, the chunk split
\* and the process's standard output behave while the clip is processed
Toolchain(clip_id) ==
    IF clip_id = ClipMissing THEN [Smooth EXCEPT !.download = "fails"]
    ELSE IF clip_id = ClipStuck THEN [Smooth EXCEPT !.download = "hangs"]
    ELSE IF clip_id = ClipSlow
    THEN [Smooth EXCEPT !.probe = "hangs", !.transcode = "hangs"]
    ELSE IF clip_id = ClipLong THEN [Smooth EXCEPT !.probe = "long"]
    ELSE IF clip_id = ClipLongStuck
    THEN [Smooth EXCEPT !.probe = "long", !.split = "hangs"]
    ELSE IF clip_id = ClipBreaks THEN [Smooth EXCEPT !.stdout = "broken"]
    ELSE Smooth

\* download_clip_mp4: YoutubeDL().download takes no timeout, so a download that
\* hangs never returns; any exception becomes None
DownloadClipMp4(tc) ==
    IF tc.download = "hangs" THEN "hung"
    ELSE IF tc.download = "fails" THEN "none" ELSE "path"

\* get_audio_duration: ffprobe and ffmpeg run with timeout=30, so a probe that
\* hangs is cut off and there is no duration; needs_chunking follows
NeedsChunking(tc) == tc.probe = "long"

\* mp4_to_whisper_audio: cut off by its bounded timeout, which counts as a
\* failed transcode
Mp4ToWhisperAudio(tc) == tc.transcode = "ok"

\* mp4_to_wav16k: subprocess.run(..., timeout=300); TimeoutExpired gives False
Mp4ToWav16k(tc) == tc.wav = "ok"

\* chunk_audio: subprocess.run without a timeout, so a split that hangs never
\* returns
ChunkAudio(tc) == IF tc.split = "hangs" THEN "hung" ELSE "chunks"

\* AudioProcessor.process_clip(clip_id): "success" or "failure" is the result
\* it returns; "hung" is a call that never returns; "raised" is an exception
\* leaving it. With standard output broken the first print raises inside the
\* try block, and the print of the except block raises again.
ProcessClip(clip_id) ==
    LET tc == Toolchain(clip_id)
    IN IF tc.stdout = "broken" THEN "raised"
       ELSE IF DownloadClipMp4(tc) = "hung" THEN "hung"
       ELSE IF DownloadClipMp4(tc) = "none" THEN "failure"
       ELSE IF ~Mp4ToWhisperAudio(tc) THEN "failure"
       ELSE IF ~NeedsChunking(tc) THEN "success"
       ELSE IF ~Mp4ToWav16k(tc) THEN "failure"
       ELSE IF ChunkAudio(tc) = "hung" THEN "hung"
       ELSE "success"

\* handler.process_clip(clip_id): download_clip_video (YoutubeDL, no timeout),
\* then the upload; every exception becomes a failed result
HandlerProcessClip(clip_id) ==
    LET tc == Toolchain(clip_id)
    IN IF tc.download = "hangs" THEN "hung"
       ELSE IF tc.download = "fails" THEN "failure"
       ELSE "success"

ClipResult(clip_id, outcome) == [clip_id |-> clip_id, success |-> outcome = "success"]

Successful(results) == Cardinality({i \in 1..Len(results) : results[i].success})

\* the aggregate process_clips returns
Aggregate(total, results) ==
    [total |-> total, successful |-> Successful(results),
     failed |-> Len(results) - Successful(results), results |-> results]

\* handler.process_clips(clip_ids): every identifier is validated first, and
\* one rejection answers for the whole batch with no result; otherwise the
\* trimmed identifiers are processed in order. last is the clip the loop got
\* to (a call that hangs is never left).
HandlerProcessClips(clip_ids) ==
    LET n == Len(clip_ids)
        validated == [i \in 1..n |-> ValidateClipId(clip_ids[i])]
        outcome == [i \in 1..n |-> HandlerProcessClip(validated[i].clip_id)]
        stuck == {i \in 1..n : outcome[i] = "hung"}
        last == IF stuck = {} THEN n ELSE CHOOSE i \in stuck : \A j \in stuck : i <= j
    IN IF \E i \in 1..n : ~validated[i].ok
       THEN [hung |-> FALSE, reached |-> 0, used |-> validated,
             ret |-> [total |-> n, successful |-> 0, failed |-> n, results |-> << >>]]
       ELSE [hung |-> stuck # {}, reached |-> last, used |-> validated,
             ret |-> Aggregate(n, [i \in 1..(IF stuck = {} THEN n ELSE last - 1) |->
                                      ClipResult(validated[i].clip_id, outcome[i])])]

----------------------------------------------------------------------------
(* The HTTP entry points and the pipeline runner *)

\* the status the runner gives a task when it is picked up
StartStatus == RUNNING

\* the batches a request may carry
Batches ==
    { << >>,
      <<ClipFine>>,
      <<ClipMissing, ClipFine>>,
      <<ClipStuck, ClipFine>>,
      <<ClipSlow, ClipFine>>,
      <<ClipLong>>,
      <<ClipLongStuck, ClipFine>>,
      <<ClipBreaks, ClipFine>>,
      <<ClipPadded>>,
      <<ClipFine, ClipSlash>>,
      <<ClipNewline>>,
      <<ClipOverlong>>,
      [i \in 1..max_clips_per_request |-> ClipFine],
      [i \in 1..(max_clips_per_request + 1) |-> ClipFine] }

\* the identifiers a clip-status or cleanup request may name
PathClipIds == {ClipFine, ClipPadded, ClipSlash}

\* a synchronous POST /process-clips runs the pipeline inside the async
\* handler, so the event loop serves nothing else until it returns
ApiBusy == \E k \in Requests : /\ jobs[k].via = "api"
                               /\ ~jobs[k].background
                               /\ jobs[k].pc = "running"

\* create_task as the API calls it, from the event loop only, so that no
\* other create_task runs between the lookup and the store: an unused
\* identifier, the fallback identifier after max_retries collisions, or
\* RuntimeError when that is taken too
CreateOutcomes(ts) ==
    {[ok |-> TRUE, task_id |-> task_id] : task_id \in TaskIds \ DOMAIN ts}
    \cup (IF TaskIds \cap DOMAIN ts = {} THEN {}
          ELSE {[ok |-> fallback_id \notin DOMAIN ts, task_id |-> fallback_id] :
                   fallback_id \in FallbackIds})

Touch(k, input, used) == [req |-> k, input |-> input, used |-> used]

\* POST /process-clips of api.py: validate_clip_ids, then either a task and a
\* scheduled background run, or the run itself
ApiProcessClips(clip_ids, background) ==
    /\ nreqs < MaxRequests
    /\ ~ApiBusy
    /\ nreqs' = nreqs + 1
    /\ LET k == nreqs + 1
           job == [NoJob EXCEPT !.via = "api", !.background = background,
                                !.clip_ids = clip_ids]
       IN IF ~ValidateClipIds(clip_ids).ok
          THEN /\ jobs' = [jobs EXCEPT ![k] = [job EXCEPT !.pc = "rejected", !.reply = 400]]
               /\ UNCHANGED tasks
          ELSE IF background
          THEN \E out \in CreateOutcomes(tasks) :
                  IF out.ok
                  THEN /\ tasks' = MapPut(tasks, out.task_id,
                                          TaskRecord(out.task_id, clip_ids, now, k))
                       /\ jobs' = [jobs EXCEPT ![k] =
                                     [job EXCEPT !.pc = "queued", !.reply = 200,
                                                 !.task_id = <<out.task_id>>]]
                  ELSE /\ jobs' = [jobs EXCEPT ![k] =
                                     [job EXCEPT !.pc = "failed", !.reply = 500]]
                       /\ UNCHANGED tasks
          ELSE /\ jobs' = [jobs EXCEPT ![k] = [job EXCEPT !.pc = "running"]]
               /\ UNCHANGED tasks
    /\ UNCHANGED <<sec_vars, run_vars, store_vars, tpc, tcall, nops, touched>>

\* the scheduled run starts: process_clips(clip_ids, task_id) marks the task
RunnerStart(k) ==
    /\ jobs[k].via = "api"
    /\ jobs[k].pc = "queued"
    /\ LET u == UpdateTaskStatus(tasks, jobs[k].task_id[1], StartStatus,
                                 << >>, << >>, now)
       IN /\ tasks' = u.tasks
          /\ jobs' = [jobs EXCEPT ![k].pc = "running",
                                  ![k].updates = Append(@, u.ret)]
    /\ UNCHANGED <<sec_vars, run_vars, store_vars, tpc, tcall, nops, nreqs, touched>>

\* one round of the loop of process_clips: process_clip on the next clip. An
\* exception leaving process_clip marks the task failed and is raised again;
\* a synchronous request then answers 500.
RunnerClip(k) ==
    /\ jobs[k].via = "api"
    /\ jobs[k].pc = "running"
    /\ jobs[k].idx < Len(jobs[k].clip_ids)
    /\ LET clip_id == jobs[k].clip_ids[jobs[k].idx + 1]
           outcome == ProcessClip(clip_id)
       IN /\ touched' = touched \cup {Touch(k, clip_id, clip_id)}
          /\ IF outcome = "hung"
             THEN /\ jobs' = [jobs EXCEPT ![k].pc = "hung"]
                  /\ UNCHANGED tasks
             ELSE IF outcome = "raised"
             THEN LET u == UpdateTaskStatus(tasks, jobs[k].task_id[1], FAILED,
                                            << >>, <<"Processing failed">>, now)
                  IN /\ jobs' = [jobs EXCEPT
                                    ![k].pc = "raised",
                                    ![k].reply = IF jobs[k].background THEN @ ELSE 500,
                                    ![k].updates = IF jobs[k].task_id = << >> THEN @
                                                   ELSE Append(@, u.ret)]
                     /\ tasks' = IF jobs[k].task_id = << >> THEN tasks ELSE u.tasks
             ELSE /\ jobs' = [jobs EXCEPT ![k].idx = @ + 1,
                                          ![k].results = Append(@, ClipResult(clip_id, outcome))]
                  /\ UNCHANGED tasks
    /\ UNCHANGED <<sec_vars, run_vars, store_vars, tpc, tcall, nops, nreqs>>

\* the loop is over: the task is marked completed with the aggregate, which
\* is returned; a synchronous request answers with it
RunnerFinish(k) ==
    /\ jobs[k].via = "api"
    /\ jobs[k].pc = "running"
    /\ jobs[k].idx = Len(jobs[k].clip_ids)
    /\ LET results == Aggregate(Len(jobs[k].clip_ids), jobs[k].results)
           u == UpdateTaskStatus(tasks, jobs[k].task_id[1], COMPLETED,
                                 <<results>>, << >>, now)
       IN /\ tasks' = IF jobs[k].task_id = << >> THEN tasks ELSE u.tasks
          /\ jobs' = [jobs EXCEPT ![k].pc = "returned", ![k].ret = <<results>>,
                                  ![k].reply = IF jobs[k].background THEN @ ELSE 200,
                                  ![k].updates = IF jobs[k].task_id = << >> THEN @
                                                 ELSE Append(@, u.ret)]
    /\ UNCHANGED <<sec_vars, run_vars, store_vars, tpc, tcall, nops, nreqs, touched>>

\* POST /process-clips of the serverless handler: validate_request, whose
\* verdict is allowed, then the checks on the list, then process_clips
HandlerPost(clip_ids, allowed) ==
    /\ nreqs < MaxRequests
    /\ nreqs' = nreqs + 1
    /\ LET k == nreqs + 1
           job == [NoJob EXCEPT !.via = "handler", !.clip_ids = clip_ids,
                                !.gate = IF allowed THEN "allowed" ELSE "denied"]
           run == HandlerProcessClips(clip_ids)
       IN IF ~allowed
          THEN /\ jobs' = [jobs EXCEPT ![k] = [job EXCEPT !.pc = "rejected", !.reply = 401]]
               /\ UNCHANGED touched
          ELSE IF Len(clip_ids) = 0 \/ Len(clip_ids) > handler_max_clips
          THEN /\ jobs' = [jobs EXCEPT ![k] = [job EXCEPT !.pc = "rejected", !.reply = 400]]
               /\ UNCHANGED touched
          ELSE /\ touched' = touched \cup
                               {Touch(k, clip_ids[i], run.used[i].clip_id) :
                                    i \in 1..run.reached}
               /\ jobs' = [jobs EXCEPT ![k] =
                             IF run.hung THEN [job EXCEPT !.pc = "hung"]
                             ELSE [job EXCEPT !.pc = "returned", !.reply = 200,
                                              !.ret = <<run.ret>>]]
    /\ UNCHANGED <<sec_vars, run_vars, store_vars, task_vars>>

\* GET /clip-status/{clip_id}: three storage keys are built from clip_id and
\* looked up; 503 when the lookups cannot be run at all
ClipStatus(clip_id, pool_ok) ==
    /\ nreqs < MaxRequests
    /\ ~ApiBusy
    /\ nreqs' = nreqs + 1
    /\ touched' = touched \cup {Touch(nreqs + 1, clip_id, clip_id)}
    /\ jobs' = [jobs EXCEPT ![nreqs + 1] =
                  [NoJob EXCEPT !.via = "status", !.clip_ids = <<clip_id>>,
                                !.pc = "returned",
                                !.reply = IF pool_ok THEN 200 ELSE 503]]
    /\ UNCHANGED <<sec_vars, run_vars, store_vars, task_vars>>

\* DELETE /cleanup/{clip_id}: a deletion that is not confirmed is refused;
\* otherwise keys built from clip_id are looked up and listed, and the files
\* found are deleted unless this is a dry run. processor.r2.delete does not
\* exist, so every deletion is recorded as failed and the answer is 207.
CleanupClip(clip_id, dry_run, confirm, found) ==
    /\ nreqs < MaxRequests
    /\ ~ApiBusy
    /\ nreqs' = nreqs + 1
    /\ LET k == nreqs + 1
           job == [NoJob EXCEPT !.via = "cleanup", !.clip_ids = <<clip_id>>]
       IN IF ~dry_run /\ ~confirm
          THEN /\ jobs' = [jobs EXCEPT ![k] = [job EXCEPT !.pc = "rejected", !.reply = 400]]
               /\ UNCHANGED touched
          ELSE /\ touched' = touched \cup {Touch(k, clip_id, clip_id)}
               /\ jobs' = [jobs EXCEPT ![k] =
                             [job EXCEPT !.pc = "returned",
                                         !.reply = IF found /\ ~dry_run THEN 207 ELSE 200]]
    /\ UNCHANGED <<sec_vars, run_vars, store_vars, task_vars>>

\* DELETE /task/{task_id}: 404 for an unknown task, otherwise the record is
\* removed from the registry, whatever its status
ApiDeleteTask(task_id) ==
    /\ nreqs < MaxRequests
    /\ ~ApiBusy
    /\ nreqs' = nreqs + 1
    /\ LET k == nreqs + 1
           job == [NoJob EXCEPT !.via = "delete_task", !.task_id = <<task_id>>]
           d == DeleteTask(tasks, task_id)
       IN /\ tasks' = d.tasks
          /\ jobs' = [jobs EXCEPT ![k] =
                        [job EXCEPT !.pc = IF d.ret THEN "returned" ELSE "rejected",
                                    !.reply = IF d.ret THEN 200 ELSE 404]]
    /\ UNCHANGED <<sec_vars, run_vars, store_vars, tpc, tcall, nops, touched>>

RunnerStep(k) == RunnerStart(k) \/ RunnerClip(k) \/ RunnerFinish(k)

NextApi ==
    \/ \E clip_ids \in Batches, background \in BOOLEAN :
          ApiProcessClips(clip_ids, background)
    \/ \E k \in Requests : RunnerStart(k)
    \/ \E k \in Requests : RunnerClip(k)
    \/ \E k \in Requests : RunnerFinish(k)
    \/ \E clip_ids \in Batches, allowed \in BOOLEAN : HandlerPost(clip_ids, allowed)
    \/ \E clip_id \in PathClipIds, pool_ok \in BOOLEAN : ClipStatus(clip_id, pool_ok)
    \/ \E clip_id \in PathClipIds, dry_run \in BOOLEAN, confirm \in BOOLEAN,
          found \in BOOLEAN : CleanupClip(clip_id, dry_run, confirm, found)
    \/ \E task_id \in TaskIds : ApiDeleteTask(task_id)

InitApi == InitShared /\ backend = "memory"

SpecApi == InitApi /\ [][NextApi]_vars

\* the thread pool keeps running the batches it was given
SpecApiFair == SpecApi /\ \A k \in Requests : WF_vars(RunnerStep(k))

----------------------------------------------------------------------------
(* The object store, chunk planning and AudioProcessor.process_clip *)

max_clip_duration == 300
chunk_duration == 90

\* durations are counted in tenths of a second; 0 stands for no duration
Scale == 10

\* clips/{id}.mp4, audio/{id}.wav, audio/{id}/chunk_{idx:03d}.wav and the
\* transcripts/{id}.json, .txt, .vtt, .ok of a clip
Key(kind, clip_id, idx) == [kind |-> kind, clip_id |-> clip_id, idx |-> idx]
Mp4Key(clip_id) == Key("mp4", clip_id, 0)
WavKey(clip_id) == Key("wav", clip_id, 0)
ChunkKey(clip_id, idx) == Key("chunk", clip_id, idx)

\* a call the pipeline makes: a toolchain call, or a write or delete of a key
CallOf(op, key) == [op |-> op, key |-> key]
Tool(op) == CallOf(op, NoKey)

\* list_files(f"audio/{clip_id}/chunk_"): the chunk keys stored for the clip
\* (the listing is limited to 100 keys, more than a clip has here)
ExistingChunks(st, clip_id) == {k \in st : k.kind = "chunk" /\ k.clip_id = clip_id}

MaxOf(S) == CHOOSE x \in S : \A y \in S : y <= x

\* _check_processing_status as it would be if any stored chunk made the clip
\* complete, whatever the indices of the chunks
CheckAnyChunk(st, clip_id) ==
    LET main_files == {k \in {Mp4Key(clip_id), WavKey(clip_id)} : k \in st}
        existing_chunks == ExistingChunks(st, clip_id)
    IN IF WavKey(clip_id) \notin st
       THEN [is_complete |-> FALSE, has_partial_files |-> main_files # {},
             needs_chunking |-> FALSE, existing_files |-> main_files,
             expected_chunks |-> 0]
       ELSE IF existing_chunks = {}
       THEN [is_complete |-> FALSE, has_partial_files |-> FALSE,
             needs_chunking |-> FALSE, existing_files |-> main_files,
             expected_chunks |-> 0]
       ELSE [is_complete |-> TRUE, has_partial_files |-> FALSE,
             needs_chunking |-> TRUE,
             existing_files |-> main_files \cup existing_chunks,
             expected_chunks |-> Cardinality(existing_chunks)]

\* _check_processing_status as it would be if the main files alone made a
\* clip without chunks complete
CheckMainFilesOnly(st, clip_id) ==
    LET main_files == {k \in {Mp4Key(clip_id), WavKey(clip_id)} : k \in st}
        existing_chunks == ExistingChunks(st, clip_id)
        expected_chunks == MaxOf({k.idx : k \in existing_chunks}) + 1
    IN IF WavKey(clip_id) \notin st
       THEN [is_complete |-> FALSE, has_partial_files |-> main_files # {},
             needs_chunking |-> FALSE, existing_files |-> main_files,
             expected_chunks |-> 0]
       ELSE IF existing_chunks = {}
       THEN [is_complete |-> TRUE, has_partial_files |-> FALSE,
             needs_chunking |-> FALSE, existing_files |-> main_files,
             expected_chunks |-> 0]
       ELSE [is_complete |-> Cardinality(existing_chunks) >= expected_chunks,
             has_partial_files |-> Cardinality(existing_chunks) < expected_chunks,
             needs_chunking |-> TRUE,
             existing_files |-> main_files \cup existing_chunks,
             expected_chunks |-> expected_chunks]

\* _check_processing_status(clip_id): a clip is complete when its audio key
\* exists together with at least one chunk and as many chunks as the highest
\* chunk index stored plus one; an audio key without chunks is never complete
CheckProcessingStatus(st, clip_id) ==
    LET main_files == {k \in {Mp4Key(clip_id), WavKey(clip_id)} : k \in st}
        existing_chunks == ExistingChunks(st, clip_id)
        expected_chunks == MaxOf({k.idx : k \in existing_chunks}) + 1
    IN IF WavKey(clip_id) \notin st
       THEN [is_complete |-> FALSE, has_partial_files |-> main_files # {},
             needs_chunking |-> FALSE, existing_files |-> main_files,
             expected_chunks |-> 0]
       ELSE IF existing_chunks = {}
       THEN [is_complete |-> FALSE, has_partial_files |-> FALSE,
             needs_chunking |-> FALSE, existing_files |-> main_files,
             expected_chunks |-> 0]
       ELSE [is_complete |-> Cardinality(existing_chunks) >= expected_chunks,
             has_partial_files |-> Cardinality(existing_chunks) < expected_chunks,
             needs_chunking |-> TRUE,
             existing_files |-> main_files \cup existing_chunks,
             expected_chunks |-> expected_chunks]

\* chunk_audio: num_chunks = int((total_duration + chunk_duration - 1) //
\* chunk_duration), a floor division of a float
NumChunks(total_duration) ==
    (total_duration + (chunk_duration - 1) * Scale) \div (chunk_duration * Scale)

\* what can go wrong while process_clip runs
PipelineFaults == {"ffmpeg", "download", "probe", "transcode", "put_mp4",
                   "put_wav", "wav16k", "split_all", "split_one",
                   "put_chunks_all", "put_chunks_tail", "put_chunk_one"}

\* the segments of the audio, segment k starting at second 90k, whose file
\* chunk_audio returns: a segment whose split fails is left out of the list,
\* and the files that follow move up one place
ChunkFiles(planned, faults) ==
    IF "split_all" \in faults THEN << >>
    ELSE LET segments == [i \in 1..planned |-> i - 1]
         IN IF "split_one" \in faults /\ planned > 1
            THEN SelectSeq(segments, LAMBDA k : k # 1)
            ELSE segments

\* the chunk files chunk_audio returns: one per planned chunk whose split
\* worked, and the caller numbers them by their position in that list
ChunksCreated(planned, faults) == Len(ChunkFiles(planned, faults))

\* r2.put_file of chunk idx succeeds
ChunkPutOk(idx, faults) ==
    /\ "put_chunks_all" \notin faults
    /\ "put_chunks_tail" \in faults => idx < 2
    /\ "put_chunk_one" \in faults => idx # 1

PipelineResult(st, calls, success, error, files, needs_chunking, planned) ==
    [store |-> st, calls |-> calls, success |-> success, error |-> error,
     files |-> files, needs_chunking |-> needs_chunking, planned |-> planned,
     segments |-> {}]

\* if duration > self.max_clip_duration, for a duration the probe returned;
\* 0 stands for a probe that returned nothing or a non-positive number
NeedsChunkingFrom(duration) == duration >= max_clip_duration * Scale

NeedsChunkingFor(duration) == duration > max_clip_duration * Scale

\* AudioProcessor.process_clip(clip_id) from the FFmpeg check on, against
\* store st, for a clip of the given duration and with the given faults
ProcessFromDownload(st, clip_id, duration, faults) ==
    LET needs_chunking == NeedsChunkingFor(duration)
        main_put == {k \in {Mp4Key(clip_id), WavKey(clip_id)} :
                        \/ k.kind = "mp4" /\ "put_mp4" \notin faults
                        \/ k.kind = "wav" /\ "put_wav" \notin faults}
        planned == NumChunks(duration)
        chunk_files == ChunkFiles(planned, faults)
        created == ChunksCreated(planned, faults)
        uploaded == {i \in 0..(created - 1) : ChunkPutOk(i, faults)}
        chunks_put == {ChunkKey(clip_id, idx) : idx \in
                          {i \in 0..(created - 1) : ChunkPutOk(i, faults)}}
        c_check == {Tool("ensure_ffmpeg")}
        c_download == c_check \cup {Tool("download")}
        c_extract == c_download \cup {Tool("probe"), Tool("transcode")}
        c_main == c_extract \cup {CallOf("put", Mp4Key(clip_id)),
                                  CallOf("put", WavKey(clip_id))}
        c_wav == c_main \cup {Tool("wav16k")}
        c_split == c_wav \cup {Tool("split")}
        c_chunks == c_split \cup {CallOf("put", ChunkKey(clip_id, idx)) :
                                     idx \in 0..(created - 1)}
    IN IF "ffmpeg" \in faults
       THEN PipelineResult(st, c_check, FALSE, "FFmpeg not available", {}, FALSE, 0)
       ELSE IF "download" \in faults
       THEN PipelineResult(st, c_download, FALSE, "Failed to download MP4", {}, FALSE, 0)
       ELSE IF "transcode" \in faults
       THEN PipelineResult(st, c_extract, FALSE, "Failed to extract audio", {},
                           needs_chunking, 0)
       ELSE IF ~needs_chunking
       THEN IF main_put = {}
            THEN PipelineResult(st, c_main, FALSE, "No audio assets uploaded", {},
                                FALSE, 0)
            ELSE PipelineResult(st \cup main_put, c_main, TRUE, "", main_put, FALSE, 0)
       ELSE IF "wav16k" \in faults
       THEN PipelineResult(st \cup main_put, c_wav, FALSE,
                           "Failed to create WAV for chunking", main_put, TRUE, 0)
       ELSE IF created = 0
       THEN PipelineResult(st \cup main_put, c_split, FALSE,
                           "Failed to create audio chunks", main_put, TRUE, planned)
       ELSE IF chunks_put = {}
       THEN \* line 766 reads wav_key, a name process_clip never binds; the
            \* NameError is raised again at line 779 and ends in the outer except
            PipelineResult(st \cup main_put, c_chunks, FALSE,
                           "name 'wav_key' is not defined", main_put, TRUE, planned)
       ELSE [PipelineResult(st \cup main_put \cup chunks_put, c_chunks, TRUE, "",
                            main_put \cup chunks_put, TRUE, planned)
             EXCEPT !.segments = {[idx |-> i, segment |-> chunk_files[i + 1]] :
                                     i \in uploaded}]

\* process_clip(clip_id): the existence check, and the stages when the clip
\* is not completely stored
RunProcessClip(st, clip_id, duration, faults) ==
    LET status == CheckProcessingStatus(st, clip_id)
    IN IF status.is_complete
       THEN PipelineResult(st, {}, TRUE, "", status.existing_files,
                           status.needs_chunking, 0)
       ELSE ProcessFromDownload(st, clip_id, duration, faults)

----------------------------------------------------------------------------
(* handler.process_clip, get_clip_status and cleanup_clip against the store *)

HandlerFaults == {"download", "put_video", "ffmpeg", "extract", "empty_audio",
                  "put_audio", "delete"}

HandlerResult(st, calls, success, error, partial_success) ==
    [store |-> st, calls |-> calls, success |-> success, error |-> error,
     partial_success |-> partial_success]

\* r2_storage.delete_file(r2_key): the key is gone unless the store fails
DeleteFile(st, key, faults) == IF "delete" \in faults THEN st ELSE st \ {key}

\* result["partial_success"], as it would be were it raised on every failure
\* that follows the video upload
PartialOnAnyFailure(stage) == stage \in {"extract", "put_audio"}

\* result["partial_success"]: raised only where the audio upload failed
PartialSuccess(stage) == stage = "put_audio"

\* handler.process_clip(clip_id): download, video upload, audio extraction
\* with a delete of the video when it fails, audio upload
RunHandlerClip(st, clip_id, faults) ==
    LET r2_key == Mp4Key(clip_id)
        audio_key == WavKey(clip_id)
        c_download == {Tool("download")}
        c_video == c_download \cup {CallOf("put", r2_key)}
        c_ffmpeg == c_video \cup {Tool("ensure_ffmpeg")}
        c_extract == c_ffmpeg \cup {Tool("wav16k")}
        c_audio == c_extract \cup {Tool("probe"), CallOf("put", audio_key)}
        rollback == {CallOf("delete", r2_key)}
        st1 == st \cup {r2_key}
    IN IF "download" \in faults
       THEN HandlerResult(st, c_download, FALSE, "Failed to download video file",
                          PartialSuccess("download"))
       ELSE IF "put_video" \in faults
       THEN HandlerResult(st, c_video, FALSE,
                          "Failed to upload video file to R2 storage",
                          PartialSuccess("put_video"))
       ELSE IF "ffmpeg" \in faults
       THEN HandlerResult(DeleteFile(st1, r2_key, faults), c_ffmpeg \cup rollback,
                          FALSE, "FFmpeg not available for audio extraction",
                          PartialSuccess("extract"))
       ELSE IF "extract" \in faults
       THEN HandlerResult(DeleteFile(st1, r2_key, faults), c_extract \cup rollback,
                          FALSE, "Failed to extract audio from video",
                          PartialSuccess("extract"))
       ELSE IF "empty_audio" \in faults
       THEN HandlerResult(DeleteFile(st1, r2_key, faults), c_extract \cup rollback,
                          FALSE, "Audio extraction failed - no audio file generated",
                          PartialSuccess("extract"))
       ELSE IF "put_audio" \in faults
       THEN HandlerResult(st1, c_audio, FALSE,
                          "Failed to upload audio file to R2 storage",
                          PartialSuccess("put_audio"))
       ELSE HandlerResult(st1 \cup {audio_key}, c_audio, TRUE, "",
                          PartialSuccess("done"))

StatusFaults == {"pool", "store_down", "check_wav", "check_mp4", "check_json"}

\* the fault that makes the lookup of a key of this kind fail
CheckFault(kind) ==
    IF kind = "wav" THEN "check_wav"
    ELSE IF kind = "mp4" THEN "check_mp4"
    ELSE IF kind = "json" THEN "check_json"
    ELSE "check_other"

\* R2Storage.file_exists(key): an error of the request is caught inside and
\* answered False
FileExists(st, key, faults) ==
    /\ key \in st
    /\ "store_down" \notin faults
    /\ CheckFault(key.kind) \notin faults

\* the keys get_clip_status looks up
StatusKeys(clip_id) == {WavKey(clip_id), Mp4Key(clip_id), Key("json", clip_id, 0)}

\* get_clip_status(clip_id): 503 only when the lookups cannot be run at all
RunClipStatus(st, clip_id, faults) ==
    IF "pool" \in faults THEN [reply |-> 503, files |-> {}]
    ELSE [reply |-> 200,
          files |-> {k \in StatusKeys(clip_id) : FileExists(st, k, faults)}]

CleanupFaults == {"store_down"}

\* the six keys cleanup_clip looks up
CleanupPatterns(clip_id) ==
    {Key(kind, clip_id, 0) : kind \in {"mp4", "wav", "json", "txt", "vtt", "ok"}}

\* list_files(f"audio/{clip_id}/", limit=1000): empty when the request fails
ListChunks(st, clip_id, faults) ==
    IF "store_down" \in faults THEN {} ELSE ExistingChunks(st, clip_id)

\* the refusal at the head of cleanup_clip, were it missing
RefusedNever(dry_run, confirm) == FALSE

\* if not dry_run and not confirm: HTTPException(400)
Refused(dry_run, confirm) == ~dry_run /\ ~confirm

\* cleanup_clip(clip_id, dry_run, confirm). processor.r2 is the R2Storage of
\* storage/r2.py, which has delete_file and no delete: each
\* processor.r2.delete(file_path) raises AttributeError before any request is
\* made, and the key is recorded under failed_deletions.
RunCleanup(st, clip_id, dry_run, confirm, faults) ==
    LET files_to_delete ==
            {k \in CleanupPatterns(clip_id) : FileExists(st, k, faults)}
            \cup ListChunks(st, clip_id, faults)
        looked == {CallOf("exists", k) : k \in CleanupPatterns(clip_id)}
                  \cup {CallOf("list", Key("chunk", clip_id, 0))}
        answer(reply, calls, deleted, failed) ==
            [store |-> st, reply |-> reply, calls |-> calls,
             files |-> IF reply = 400 THEN {} ELSE files_to_delete,
             deleted_files |-> deleted, failed_deletions |-> failed]
    IN IF Refused(dry_run, confirm) THEN answer(400, {}, {}, {})
       ELSE IF files_to_delete = {} THEN answer(200, looked, {}, {})
       ELSE IF dry_run THEN answer(200, looked, {}, {})
       ELSE answer(207, looked, {}, files_to_delete)

----------------------------------------------------------------------------
(* Operations run against the store, one after another *)

\* the clips of this part and the duration the probe reports for each
StoreClips == {ClipFine, ClipSlow, ClipLong, ClipLongStuck}

DurationOf(clip_id) ==
    IF clip_id = ClipLong THEN 400 * Scale
    ELSE IF clip_id = ClipLongStuck THEN 360 * Scale + 5
    ELSE IF clip_id = ClipSlow THEN max_clip_duration * Scale
    ELSE 30 * Scale

\* get_audio_duration(mp4_path) as process_clip keeps it: None when the probe
\* fails or returns a non-positive number
Probe(clip_id, faults) == IF "probe" \in faults THEN 0 ELSE DurationOf(clip_id)

FaultSets(F) == {S \in SUBSET F : Cardinality(S) <= MaxFaults}

RunOf(op, clip_id, faults) ==
    [NoRun EXCEPT !.op = op, !.clip_id = clip_id, !.before = store,
                  !.flags = faults]

\* AudioProcessor.process_clip(clip_id)
PipelineClip(clip_id, faults) ==
    /\ nruns < MaxRuns
    /\ nruns' = nruns + 1
    /\ LET r == RunProcessClip(store, clip_id, Probe(clip_id, faults), faults)
       IN /\ store' = r.store
          /\ lastrun' = [RunOf("process_clip", clip_id, faults) EXCEPT
                            !.calls = r.calls, !.success = r.success,
                            !.error = r.error, !.files = r.files,
                            !.needs_chunking = r.needs_chunking,
                            !.planned = r.planned,
                            !.segments = r.segments,
                            !.probed = Probe(clip_id, faults),
                            !.duration = DurationOf(clip_id)]
    /\ UNCHANGED <<sec_vars, run_vars, task_vars, api_vars>>

\* handler.process_clip(clip_id)
HandlerClip(clip_id, faults) ==
    /\ nruns < MaxRuns
    /\ nruns' = nruns + 1
    /\ LET r == RunHandlerClip(store, clip_id, faults)
       IN /\ store' = r.store
          /\ lastrun' = [RunOf("handler_clip", clip_id, faults) EXCEPT
                            !.calls = r.calls, !.success = r.success,
                            !.error = r.error,
                            !.partial_success = r.partial_success]
    /\ UNCHANGED <<sec_vars, run_vars, task_vars, api_vars>>

\* GET /clip-status/{clip_id}
StatusRun(clip_id, faults) ==
    /\ nruns < MaxRuns
    /\ nruns' = nruns + 1
    /\ LET r == RunClipStatus(store, clip_id, faults)
       IN lastrun' = [RunOf("clip_status", clip_id, faults) EXCEPT
                        !.reply = r.reply, !.files = r.files]
    /\ UNCHANGED <<sec_vars, run_vars, task_vars, api_vars, store>>

\* DELETE /cleanup/{clip_id}?dry_run=..&confirm=..
CleanupRun(clip_id, dry_run, confirm, faults) ==
    /\ nruns < MaxRuns
    /\ nruns' = nruns + 1
    /\ LET r == RunCleanup(store, clip_id, dry_run, confirm, faults)
       IN /\ store' = r.store
          /\ lastrun' = [RunOf("cleanup", clip_id,
                               faults \cup (IF dry_run THEN {"dry_run"} ELSE {})
                                      \cup (IF confirm THEN {"confirm"} ELSE {}))
                            EXCEPT !.reply = r.reply, !.calls = r.calls,
                                   !.files = r.files,
                                   !.deleted_files = r.deleted_files,
                                   !.failed_deletions = r.failed_deletions]
    /\ UNCHANGED <<sec_vars, run_vars, task_vars, api_vars>>

\* the transcription service, which is not part of this program, stores the
\* transcript of a clip
TranscriptStored(clip_id) ==
    /\ nruns < MaxRuns
    /\ nruns' = nruns + 1
    /\ store' = store \cup {Key("json", clip_id, 0)}
    /\ lastrun' = RunOf("transcript", clip_id, {})
    /\ UNCHANGED <<sec_vars, run_vars, task_vars, api_vars>>

NextStore ==
    \/ \E clip_id \in StoreClips, faults \in FaultSets(PipelineFaults) :
          PipelineClip(clip_id, faults)
    \/ \E clip_id \in StoreClips, faults \in FaultSets(HandlerFaults) :
          HandlerClip(clip_id, faults)
    \/ \E clip_id \in StoreClips, faults \in FaultSets(StatusFaults) :
          StatusRun(clip_id, faults)
    \/ \E clip_id \in StoreClips, dry_run \in BOOLEAN, confirm \in BOOLEAN,
          faults \in FaultSets(CleanupFaults) :
          CleanupRun(clip_id, dry_run, confirm, faults)
    \/ \E clip_id \in StoreClips : TranscriptStored(clip_id)

InitStore == InitShared /\ backend = "memory"

SpecStore == InitStore /\ [][NextStore]_vars

----------------------------------------------------------------------------
(* Runs of process_clip in flight together: background batches run on pool
   threads and a synchronous request on the event loop, and process_clip
   takes no lock *)

OverlapClips == {ClipFine, ClipLong}

\* the runs in flight on the clip when runner r starts on it
InFlightOn(r, clip_id) ==
    {q \in Runners \ {r} : /\ inflight[q].at = "working"
                            /\ inflight[q].clip_id = <<clip_id>>}

\* process_clip(clip_id) up to the existence check: a completely stored clip
\* is answered at once, any other goes on to the download
FlightCheck(r, clip_id) ==
    /\ inflight[r].at \in {"idle", "done"}
    /\ nruns < MaxFlights
    /\ nruns' = nruns + 1
    /\ LET status == CheckProcessingStatus(store, clip_id)
           peers == InFlightOn(r, clip_id)
           mine == [NoFlight EXCEPT
                       !.at = IF status.is_complete THEN "done" ELSE "working",
                       !.clip_id = <<clip_id>>,
                       !.complete = status.is_complete,
                       !.peers = peers]
       IN inflight' = [q \in Runners |->
                         IF q = r THEN mine
                         ELSE IF q \in peers
                         THEN [inflight[q] EXCEPT !.peers = @ \cup {r}]
                         ELSE [inflight[q] EXCEPT !.peers = @ \ {r}]]
    /\ UNCHANGED <<sec_vars, task_vars, api_vars, twin, store, lastrun>>

\* process_clip from the FFmpeg check to its return
FlightWork(r, faults) ==
    /\ inflight[r].at = "working"
    /\ LET clip_id == inflight[r].clip_id[1]
           res == ProcessFromDownload(store, clip_id, Probe(clip_id, faults), faults)
       IN /\ store' = res.store
          /\ inflight' = [inflight EXCEPT ![r].at = "done", ![r].calls = res.calls]
    /\ UNCHANGED <<sec_vars, task_vars, api_vars, twin, lastrun, nruns>>

NextOverlap ==
    \/ \E r \in Runners, clip_id \in OverlapClips : FlightCheck(r, clip_id)
    \/ \E r \in Runners, faults \in FaultSets(PipelineFaults) : FlightWork(r, faults)

InitOverlap == InitShared /\ backend = "memory"

SpecOverlap == InitOverlap /\ [][NextOverlap]_vars

----------------------------------------------------------------------------
(* Two deployments, one on InMemoryCache and one on RedisCache, that receive
   the same requests at the same clock values, one request at a time and
   with both stores within reach *)

\* check_rate_limit(client_ip) runs in both deployments at twin.clock, and
\* then d seconds pass
TwinServe(client_ip, d) ==
    LET m == CheckRateLimit("memory", twin.memory, client_ip, twin.clock)
        r == CheckRateLimit("redis", twin.redis, client_ip, twin.clock)
    IN [twin EXCEPT !.ip = client_ip, !.at = twin.clock,
                    !.clock = twin.clock + d,
                    !.memory = m.cache, !.redis = r.cache,
                    !.admit = [be \in {"memory", "redis"} |->
                                  IF be = "memory" THEN m.admit ELSE r.admit]]

\* one request, followed or not by the turn of the second
TwinCheck(client_ip, d) ==
    /\ twin.left = 0
    /\ twin.n < MaxChecks
    /\ twin' = [TwinServe(client_ip, d) EXCEPT !.n = twin.n + 1]
    /\ UNCHANGED <<sec_vars, task_vars, api_vars, store_vars, inflight>>

\* steady traffic of one identity starts: one request in each of the next
\* rate_limit_requests seconds
TwinSteadyStart(client_ip) ==
    /\ twin.left = 0
    /\ twin.bursts < MaxBursts
    /\ twin' = [twin EXCEPT !.bursts = @ + 1, !.left = rate_limit_requests,
                           !.ip = client_ip]
    /\ UNCHANGED <<sec_vars, task_vars, api_vars, store_vars, inflight>>

TwinSteadyStep ==
    /\ twin.left > 0
    /\ twin' = [TwinServe(twin.ip, 1) EXCEPT !.left = twin.left - 1]
    /\ UNCHANGED <<sec_vars, task_vars, api_vars, store_vars, inflight>>

\* nobody sends a request until the ttl that check_rate_limit sets has run out
TwinQuiet ==
    /\ twin.left = 0
    /\ twin.quiets < MaxQuiets
    /\ twin' = [twin EXCEPT !.quiets = @ + 1,
                           !.clock = @ + rate_limit_window + ttl_buffer + 1]
    /\ UNCHANGED <<sec_vars, task_vars, api_vars, store_vars, inflight>>

NextTwin ==
    \/ \E client_ip \in RateClients, d \in {0, 1} : TwinCheck(client_ip, d)
    \/ \E client_ip \in RateClients : TwinSteadyStart(client_ip)
    \/ TwinSteadyStep
    \/ TwinQuiet

InitTwin == InitShared /\ backend = "memory"

SpecTwin == InitTwin /\ [][NextTwin]_vars

----------------------------------------------------------------------------
(* The limiter claims, stated on SpecRate *)

\* admissions of an identity inside the trailing window that ends at t
AdmittedInWindow(client_ip, t) ==
    Cardinality({i \in DOMAIN admitted[client_ip] :
                    /\ admitted[client_ip][i] > t - rate_limit_window
                    /\ admitted[client_ip][i] <= t})

\* C1: for every identity, the number of calls admitted within any trailing
\* window of rate_limit_window seconds never exceeds rate_limit_requests.
\* (Only admissions decided by the count are in the history; a call admitted
\* because the cache failed is not counted against the claim.)
C1_WindowCeiling ==
    \A ip \in RateClients :
        \A i \in DOMAIN admitted[ip] :
            AdmittedInWindow(ip, admitted[ip][i]) <= rate_limit_requests

\* a worker between its insert and the moment its count is read
MidUnit(p) == pc[p] \in {"x_zrem", "x_zcard", "f_zrem", "f_zcard"}

\* a worker about to run an insert, evict or count command
AtUnitStep(p) ==
    pc[p] \in {"x_zadd", "x_zrem", "x_zcard", "x_exec", "f_zadd", "f_zrem", "f_zcard"}

\* C2: the insert, evict and count of one call run as one atomic unit: while a
\* call is between its insert and its count, no other call on the same
\* identity runs an insert, evict or count step.
C2_AtomicUnit ==
    [][\A p \in Workers, q \in Workers :
          (/\ p # q
           /\ MidUnit(p)
           /\ AtUnitStep(q)
           /\ call[p].ip = call[q].ip)
          => pc'[q] = pc[q]]_vars

\* no call of the identity is in flight
Quiescent(client_ip) ==
    /\ \A p \in Workers : pc[p] # "idle" => call[p].ip # client_ip
    /\ steady.left = 0

\* C3: the number of entries stored for an identity with a timestamp inside
\* the current window is at most rate_limit_requests (a rejected request
\* leaves no entry of its own); checked whenever no call of the identity is
\* in flight.
C3_LiveCeiling ==
    \A ip \in RateClients :
        Quiescent(ip) =>
            Cardinality(LiveEntries(cache, ip, now)) <= rate_limit_requests

----------------------------------------------------------------------------
(* The gate claims, stated on Spec. They speak of the request as the client
   built it (req.desc) and of the answer (resp). *)

Responded == phase = "responded"

\* the credentials of the request are those of a correct client
GoodCreds(d) ==
    /\ d.sig = "valid"
    /\ d.ts \in {"old300", "now", "new300"}
    /\ d.nonce \in {"len16", "len64"}

\* the idempotency key is 16 to 64 alphanumeric-or-hyphen characters
GoodIdem(d) == d.idem \in {"dashed16", "len64"}

\* the header names are in a spelling the code looks up
KnownSpelling(d) == d.style \in {"canonical", "lower"}

C5_SignatureIff ==
    (Responded /\ resp.hmac # "skipped") =>
        (resp.hmac = "True" <=> GoodCreds(req.desc))

\* C6: a timestamp exactly nonce_expiry seconds in the past or in the future
\* passes the freshness check, one second further is rejected (for a request
\* whose three credential headers reach the check).
C6_FreshnessBoundary ==
    (Responded /\ resp.hmac # "skipped" /\ KnownSpelling(req.desc)
       /\ req.desc.sig # "absent" /\ req.desc.nonce # "absent") =>
        /\ req.desc.ts \in {"old300", "new300"} =>
              /\ resp.log # "Request timestamp expired"
              /\ (GoodCreds(req.desc) => resp.hmac = "True")
        /\ req.desc.ts \in {"old301", "new301"} =>
              /\ resp.hmac = "False"
              /\ resp.log = "Request timestamp expired"

C6_Witness ==
    /\ Responded
    /\ req.desc.ts = "old300"
    /\ resp.hmac = "True"
    /\ resp.valid

\* C7: every request that fails the signature check, whatever the cause
\* (missing header, non-numeric or stale timestamp, malformed nonce, wrong
\* signature), gets the same rejection reason from validate_request.
C7_UniformRejection ==
    (Responded /\ resp.hmac # "skipped" /\ ~GoodCreds(req.desc)) =>
        /\ ~resp.raised
        /\ ~resp.valid
        /\ resp.reason = "HMAC validation failed"

\* C8: validate_request answers "Rate limit exceeded" exactly when the
\* limiter rejected the call, whatever else is wrong with the request, and an
\* authentication reason for every other rejection it returns; do_GET and
\* do_POST answer the former with 429 and the latter with 401.
C8_ReasonAndStatus ==
    (Responded /\ ~resp.raised) =>
        /\ ~resp.admit => (~resp.valid /\ resp.reason = "Rate limit exceeded")
        /\ (resp.admit /\ ~resp.valid) =>
              resp.reason \in {"HMAC validation failed", "Invalid idempotency key"}
        /\ (~resp.valid /\ req.desc.method \in {"GET", "POST"}) =>
              resp.status = (IF resp.admit THEN 401 ELSE 429)

C8_Witness ==
    /\ Responded
    /\ ~resp.admit
    /\ req.desc.sig = "wrong"
    /\ req.desc.method = "POST"
    /\ resp.reason = "Rate limit exceeded"
    /\ resp.status = 429

\* C9: for POST and DELETE alike, a request with a valid signature whose
\* idempotency key is missing or is not 16 to 64 alphanumeric-or-hyphen
\* characters is rejected by validate_request.
C9_IdempotencyRequired ==
    (Responded /\ req.desc.method \in {"POST", "DELETE"}
       /\ resp.hmac = "True" /\ ~GoodIdem(req.desc)) =>
        ~resp.valid

\* C10: two requests that differ only in the letter case of their header
\* names get the same outcome from validate_request: the answer to the
\* request as sent is the answer to the same request with the header names
\* in their canonical spelling.
C10_CaseInsensitive ==
    Responded =>
        LET d == req.desc
            canonical == [d EXCEPT !.style = "canonical"]
            v == ValidateRequest(d.method, HeadersOf(canonical, req.at),
                                 BodyOf(d.method), [admit |-> resp.admit], req.at)
        IN /\ v.valid = resp.valid
           /\ v.reason = resp.reason
           /\ v.raised = resp.raised

----------------------------------------------------------------------------
(* The registry claims, stated on SpecTasks *)

\* the identifiers stored before and after a step, with the same record
\* (told by its serial) under them
Kept == {task_id \in DOMAIN tasks \cap DOMAIN tasks' :
            tasks'[task_id].serial = tasks[task_id].serial}

\* C12: create_task never replaces an existing record: whatever the
\* interleaving, an identifier that holds a record before a step holds the
\* same record after it, unless the step removed it.
C12_NoOverwrite ==
    [][\A task_id \in DOMAIN tasks \cap DOMAIN tasks' :
          tasks'[task_id].serial = tasks[task_id].serial]_vars

\* C13: started_at is set at the first transition to Running, completed_at at
\* the first transition to Completed or Failed, and a timestamp that is set
\* never changes.
C13_WriteOnce ==
    [][\A task_id \in Kept :
          LET old == tasks[task_id]
              new == tasks'[task_id]
          IN /\ old.started_at # NoneTime => new.started_at = old.started_at
             /\ old.completed_at # NoneTime => new.completed_at = old.completed_at
             /\ (old.started_at = NoneTime /\ new.status = RUNNING)
                   => new.started_at = now
             /\ (old.completed_at = NoneTime /\ new.status \in Terminal
                   /\ old.status \notin Terminal)
                   => new.completed_at = now
             /\ (old.started_at = NoneTime /\ new.started_at # NoneTime)
                   => new.status = RUNNING
             /\ (old.completed_at = NoneTime /\ new.completed_at # NoneTime)
                   => new.status \in Terminal]_vars

C13_Witness ==
    \E task_id \in DOMAIN tasks :
        /\ tasks[task_id].status = COMPLETED
        /\ tasks[task_id].started_at # NoneTime
        /\ tasks[task_id].completed_at > tasks[task_id].started_at

\* C14: a sweep removes exactly the Completed or Failed records older than
\* max_age: every record it removes is Completed or Failed and older than
\* max_age at the moment of removal, every Completed or Failed record that
\* was older than max_age when the sweep was called is removed, and the
\* records it keeps are untouched.
C14_SweepExact ==
    [][\A p \in TThreads :
          (tpc[p] = "sweep" /\ tpc'[p] # "sweep") =>
             LET removed == DOMAIN tasks \ DOMAIN tasks'
                 age(task_id, t) == t - tasks[task_id].created_at
                 max_age == tcall[p].max_age_hours * 3600
             IN /\ \A task_id \in removed :
                      /\ tasks[task_id].status \in {COMPLETED, FAILED}
                      /\ age(task_id, now) > max_age
                /\ \A task_id \in DOMAIN tasks :
                      (/\ tasks[task_id].status \in {COMPLETED, FAILED}
                       /\ age(task_id, tcall[p].called_at) > max_age)
                      => task_id \in removed
                /\ \A task_id \in DOMAIN tasks \ removed :
                      tasks'[task_id] = tasks[task_id]]_vars

C14_Witness ==
    \E p \in TThreads :
        /\ tpc[p] = "done"
        /\ tcall[p].op = "sweep"
        /\ tcall[p].ret = <<1>>
        /\ \E task_id \in DOMAIN tasks :
              /\ tasks[task_id].status \in {QUEUED, RUNNING}
              /\ tasks[task_id].created_at < tcall[p].cutoff

\* the dictionaries a status request has returned
Returned ==
    {tcall[p].ret[1] : p \in {q \in TThreads : /\ tpc[q] = "done"
                                               /\ tcall[q].op = "get"
                                               /\ Len(tcall[q].obj) = 1}}

\* C39: a task record handed to a reader is a consistent snapshot while
\* update_task_status runs beside it: a returned record whose status is
\* Completed or Failed carries its completed_at, and a Completed one carries
\* the results written by the update that completed it.
C39_ConsistentSnapshot ==
    \A data \in Returned :
        /\ data.status \in Terminal => data.completed_at # NoneTime
        /\ data.status = COMPLETED => data.results # << >>

----------------------------------------------------------------------------
(* The entry-point and pipeline claims, stated on SpecApi and SpecApiFair *)

\* the requests that POST /process-clips served
ServedProcessClips == {k \in Requests : jobs[k].via \in {"api", "handler"}}

TouchedFor(k) == {e \in touched : e.req = k}

\* C11: on every path that serves POST /process-clips, a request for which a
\* clip was downloaded, transcoded or uploaded, or for which a task was
\* registered, is a request the admission gate had allowed.
C11_GateFirst ==
    \A k \in ServedProcessClips :
        (TouchedFor(k) # {} \/ jobs[k].task_id # << >>) => jobs[k].gate = "allowed"

\* request k is a background batch whose task record has been deleted from the
\* registry
Orphaned(k) ==
    /\ jobs[k].via = "api"
    /\ jobs[k].background
    /\ jobs[k].task_id # << >>
    /\ jobs[k].task_id[1] \notin DOMAIN tasks

\* the record a background submission registered, while it is stored
HasTask(k) ==
    /\ jobs[k].via = "api"
    /\ jobs[k].task_id # << >>
    /\ jobs[k].task_id[1] \in DOMAIN tasks
    /\ tasks[jobs[k].task_id[1]].serial = k

TaskOf(k) == tasks[jobs[k].task_id[1]]

\* a status change of a stored record that the lifecycle allows
LegalMove(from, to) ==
    \/ from = QUEUED /\ to = RUNNING
    \/ from = RUNNING /\ to \in Terminal

\* C15: when a background submission returns, its task is stored in state
\* Queued with the submitted clip-ID list; the task's status then changes
\* only from Queued to Running and from Running to Completed or Failed, so a
\* Completed or Failed task keeps its status; and every task submitted, and
\* not deleted by a client, does reach Completed or Failed.
C15_Lifecycle ==
    /\ [](\A k \in Requests :
             (jobs[k].via = "api" /\ jobs[k].pc = "queued" /\ ~Orphaned(k)) =>
                 /\ HasTask(k)
                 /\ TaskOf(k).status = QUEUED
                 /\ TaskOf(k).clip_ids = jobs[k].clip_ids)
    /\ [][\A task_id \in DOMAIN tasks \cap DOMAIN tasks' :
             (/\ tasks'[task_id].serial = tasks[task_id].serial
              /\ tasks'[task_id].status # tasks[task_id].status)
             => LegalMove(tasks[task_id].status, tasks'[task_id].status)]_vars
    /\ \A k \in Requests :
          (jobs[k].via = "api" /\ jobs[k].pc = "queued")
             ~> (Orphaned(k) \/ (HasTask(k) /\ TaskOf(k).status \in Terminal))

\* C16: every background batch that starts running reaches Completed or
\* Failed, whatever the toolchain calls do.
C16_BatchTerminates ==
    \A k \in Requests :
        (jobs[k].via = "api" /\ jobs[k].background /\ jobs[k].pc = "running")
           ~> (jobs[k].pc \in {"returned", "raised"})

\* C17: process_clips never lets an exception reach its caller; a batch
\* call never ends by raising.
C17_NeverRaises ==
    \A k \in Requests : jobs[k].via = "api" => jobs[k].pc # "raised"

\* C18: the aggregate a batch runner returns holds one result per input clip
\* ID, in input order, and successful + failed = total = the number of input
\* clip IDs.
C18_OneResultEach ==
    \A k \in ServedProcessClips :
        jobs[k].pc = "returned" =>
            LET ret == jobs[k].ret[1]
                n == Len(jobs[k].clip_ids)
            IN /\ Len(ret.results) = n
               /\ \A i \in 1..n : i <= Len(ret.results) =>
                                       ret.results[i].clip_id = jobs[k].clip_ids[i]
               /\ ret.total = n
               /\ ret.successful + ret.failed = ret.total

\* the pattern of a clip ID: [A-Za-z0-9_-], 1 to 50 characters, nothing else
WellFormed(clip_id) ==
    /\ Len(clip_id) \in 1..50
    /\ \A i \in 1..Len(clip_id) : clip_id[i] \in ClipIdChars

\* a POST /process-clips request that got as far as the checks on its batch
BatchChecked(k) ==
    /\ k \in ServedProcessClips
    /\ jobs[k].via = "handler" => jobs[k].gate = "allowed"

\* C19: a batch of 1 to 10 valid clip IDs passes validation, and an empty
\* batch or one of 11 or more is answered 400 with no clip touched and no
\* task registered for it.
C19_BatchSize ==
    \A k \in Requests :
        BatchChecked(k) =>
            LET n == Len(jobs[k].clip_ids)
            IN /\ (n \in 1..10 /\ \A i \in 1..n : WellFormed(jobs[k].clip_ids[i]))
                    => jobs[k].pc # "rejected"
               /\ (n = 0 \/ n >= 11)
                    => /\ jobs[k].pc = "rejected"
                       /\ jobs[k].reply = 400
                       /\ TouchedFor(k) = {}
                       /\ jobs[k].task_id = << >>
                       /\ \A task_id \in DOMAIN tasks : tasks[task_id].serial # k

\* a batch of 11 was refused and a batch of 10 was processed to the end
C19_Witness ==
    \E k1, k2 \in ServedProcessClips :
        /\ BatchChecked(k1)
        /\ Len(jobs[k1].clip_ids) = 11
        /\ jobs[k1].pc = "rejected"
        /\ Len(jobs[k2].clip_ids) = 10
        /\ jobs[k2].pc = "returned"
        /\ Cardinality(TouchedFor(k2)) = 1

\* C20: every string that reached a URL, a file path or a storage key is the
\* clip ID as it was received, and that ID matches the pattern; this covers
\* process-clips, clip-status and cleanup.
C20_OnlyVerifiedIds ==
    \A e \in touched : WellFormed(e.input) /\ e.used = e.input

----------------------------------------------------------------------------
(* The store and pipeline-stage claims, stated on SpecStore *)

Ran(op) == lastrun.op = op

\* ceil(duration / chunk length), on durations in tenths of a second
ExpectedChunkCount(duration) ==
    (duration + chunk_duration * Scale - 1) \div (chunk_duration * Scale)

\* the chunk keys a clip of this duration is expected to have
ExpectedChunkKeys(clip_id, duration) ==
    IF duration > max_clip_duration * Scale
    THEN {ChunkKey(clip_id, idx) : idx \in 0..(ExpectedChunkCount(duration) - 1)}
    ELSE {}

\* the artifact keys of a clip among the keys st
Artifacts(st, clip_id) ==
    {k \in st : k.clip_id = clip_id /\ k.kind \in {"mp4", "wav", "chunk"}}

\* the toolchain calls, writes and deletes among the calls of the last run
Work == {c \in lastrun.calls : c.op \notin {"exists", "list"}}

\* the last process_clip returned what was stored without doing anything
Skipped == Ran("process_clip") /\ lastrun.success /\ Work = {}

\* C21: when process_clip is called for a clip whose audio key and all
\* expected chunk keys are stored, it makes no toolchain call and no write or
\* delete, and returns success with the artifact keys already present.
C21_NoRework ==
    (/\ Ran("process_clip")
     /\ WavKey(lastrun.clip_id) \in lastrun.before
     /\ ExpectedChunkKeys(lastrun.clip_id, lastrun.duration) \subseteq lastrun.before)
    => /\ Work = {}
       /\ lastrun.success
       /\ lastrun.files = Artifacts(lastrun.before, lastrun.clip_id)

\* C22: a clip with fewer chunks stored than its duration calls for is not
\* reported complete by the existence check and is not skipped.
C22_IncompleteNotSkipped ==
    (/\ Ran("process_clip")
     /\ lastrun.duration > max_clip_duration * Scale
     /\ Cardinality(ExistingChunks(lastrun.before, lastrun.clip_id))
           < ExpectedChunkCount(lastrun.duration))
    => /\ ~CheckProcessingStatus(lastrun.before, lastrun.clip_id).is_complete
       /\ ~Skipped

\* C23: when chunking was needed, no chunk was uploaded, and audio/{id}.wav
\* was uploaded in this run, process_clip returns success with needs_chunking
\* false and the audio kept; it fails only when no whole audio was uploaded.
C23_Downgrade ==
    (/\ Ran("process_clip")
     /\ Tool("split") \in lastrun.calls
     /\ \A k \in lastrun.files : k.kind # "chunk")
    => IF WavKey(lastrun.clip_id) \in lastrun.files
       THEN /\ lastrun.success
            /\ ~lastrun.needs_chunking
            /\ WavKey(lastrun.clip_id) \in store
       ELSE ~lastrun.success

\* the handler's video upload went through in the last run
VideoUploaded ==
    /\ Ran("handler_clip")
    /\ CallOf("put", Mp4Key(lastrun.clip_id)) \in lastrun.calls
    /\ "put_video" \notin lastrun.flags

\* C24: in the handler pipeline, a failed result with partial_success false
\* that follows a successful video upload comes with a delete of the video
\* key and leaves no video of that run in the store.
C24_Rollback ==
    (VideoUploaded /\ ~lastrun.success /\ ~lastrun.partial_success)
    => /\ CallOf("delete", Mp4Key(lastrun.clip_id)) \in lastrun.calls
       /\ Mp4Key(lastrun.clip_id) \notin store

\* the audio upload of the last handler run failed
AudioUploadFailed ==
    /\ VideoUploaded
    /\ CallOf("put", WavKey(lastrun.clip_id)) \in lastrun.calls
    /\ "put_audio" \in lastrun.flags

\* C25: in the handler pipeline, a failed audio upload after a successful
\* video upload issues no delete, leaves the video stored and gives
\* success false, partial_success true and an error naming the audio upload;
\* partial_success is true in no other outcome.
C25_PartialSuccess ==
    Ran("handler_clip") =>
        /\ AudioUploadFailed =>
              /\ \A c \in lastrun.calls : c.op # "delete"
              /\ Mp4Key(lastrun.clip_id) \in store
              /\ ~lastrun.success
              /\ lastrun.partial_success
              /\ lastrun.error = "Failed to upload audio file to R2 storage"
        /\ lastrun.partial_success => AudioUploadFailed

C25_Witness ==
    /\ AudioUploadFailed
    /\ lastrun.partial_success
    /\ Mp4Key(lastrun.clip_id) \in store
    /\ Mp4Key(lastrun.clip_id) \notin lastrun.before

\* C26: in AudioProcessor.process_clip a run in which an upload of the
\* video, the audio or a chunk failed never returns success, and a failed
\* run carries a non-empty error.
C26_FailedStageFails ==
    Ran("process_clip") =>
        /\ lastrun.success =>
              \A c \in lastrun.calls : c.op = "put" => c.key \in store
        /\ ~lastrun.success => lastrun.error # ""

\* C27: in GET /clip-status a failed existence check counts its key as not
\* found while the request succeeds, and when the object store is
\* unavailable, so that every check fails, the answer is 503.
C27_StatusErrors ==
    Ran("clip_status") =>
        /\ \A k \in StatusKeys(lastrun.clip_id) :
              (CheckFault(k.kind) \in lastrun.flags /\ lastrun.reply = 200)
                 => k \notin lastrun.files
        /\ ({"pool", "store_down"} \cap lastrun.flags = {}) => lastrun.reply = 200
        /\ "store_down" \in lastrun.flags => lastrun.reply = 503

\* the keys of the clip that cleanup is to find in the store
Matching(st, clip_id) ==
    {k \in st : k.clip_id = clip_id}

\* C28: DELETE /cleanup deletes, or tries to, only with dry_run false and
\* confirm true; a dry run returns the matching keys under files_to_delete
\* with deleted_files empty and the store unchanged; dry_run false with
\* confirm false is refused before any key is looked up, listed or deleted.
C28_DestructiveOptIn ==
    Ran("cleanup") =>
        /\ (store # lastrun.before \/ lastrun.deleted_files # {}
                \/ lastrun.failed_deletions # {})
              => ("dry_run" \notin lastrun.flags /\ "confirm" \in lastrun.flags)
        /\ "dry_run" \in lastrun.flags =>
              /\ store = lastrun.before
              /\ lastrun.deleted_files = {}
              /\ "store_down" \notin lastrun.flags =>
                    lastrun.files = Matching(lastrun.before, lastrun.clip_id)
        /\ ({"dry_run", "confirm"} \cap lastrun.flags = {}) =>
              /\ lastrun.reply = 400
              /\ lastrun.calls = {}
              /\ store = lastrun.before

\* a dry run over a clip with at least three keys stored
C28_Witness ==
    /\ Ran("cleanup")
    /\ "dry_run" \in lastrun.flags
    /\ Cardinality(lastrun.files) >= 3
    /\ lastrun.files = Matching(store, lastrun.clip_id)

\* C29: with dry_run false and confirm true every key of files_to_delete is
\* in exactly one of deleted_files and failed_deletions, and a key the store
\* is able to delete is in deleted_files and gone from the store.
C29_DeletionOutcome ==
    (/\ Ran("cleanup")
     /\ "dry_run" \notin lastrun.flags
     /\ "confirm" \in lastrun.flags)
    => \A k \in lastrun.files :
          /\ (k \in lastrun.deleted_files) # (k \in lastrun.failed_deletions)
          /\ "store_down" \notin lastrun.flags =>
                (k \in lastrun.deleted_files /\ k \notin store)

\* C30: chunk_audio plans ceil(total_duration / chunk_length) chunks for
\* every positive duration, whole or fractional.
C30_ChunkCount ==
    (Ran("process_clip") /\ Tool("split") \in lastrun.calls)
    => lastrun.planned = ExpectedChunkCount(lastrun.duration)

----------------------------------------------------------------------------
(* The existence check, the chunking decision and the chunk names *)

\* the chunk indices stored for the clip
ChunkIndices(st, clip_id) == {k.idx : k \in ExistingChunks(st, clip_id)}

\* an index below the highest stored chunk index has no chunk key
HasGap(st, clip_id) ==
    LET indices == ChunkIndices(st, clip_id)
    IN /\ indices # {}
       /\ \E i \in 0..MaxOf(indices) : i \notin indices

\* the audio key, at least one chunk key, and as many chunk keys as the
\* highest chunk index plus one
FullChunkRun(st, clip_id) ==
    LET indices == ChunkIndices(st, clip_id)
    IN /\ WavKey(clip_id) \in st
       /\ indices # {}
       /\ Cardinality(ExistingChunks(st, clip_id)) = MaxOf(indices) + 1

\* C31: the existence check reports a clip complete exactly when
\* audio/{id}.wav is stored with at least one chunk key and the number of
\* chunk keys equals the highest chunk index plus one; where the audio key is
\* stored, a gap in the chunk indices gives is_complete false and
\* has_partial_files true; process_clip skips exactly the complete clips.
C31_CompleteIff ==
    /\ \A clip_id \in StoreClips :
          LET status == CheckProcessingStatus(store, clip_id)
          IN /\ status.is_complete <=> FullChunkRun(store, clip_id)
             /\ (WavKey(clip_id) \in store /\ HasGap(store, clip_id))
                   => (~status.is_complete /\ status.has_partial_files)
    /\ Ran("process_clip") =>
          (Skipped <=> FullChunkRun(lastrun.before, lastrun.clip_id))

\* process_clip ran on a clip stored with its audio key and a gap in its
\* chunks, and did not skip it
C31_Witness ==
    /\ Ran("process_clip")
    /\ WavKey(lastrun.clip_id) \in lastrun.before
    /\ HasGap(lastrun.before, lastrun.clip_id)
    /\ ~Skipped
    /\ Tool("ensure_ffmpeg") \in lastrun.calls

\* the video and audio keys of the clip are in st and no chunk key is
MainFilesOnly(st, clip_id) ==
    /\ Mp4Key(clip_id) \in st
    /\ WavKey(clip_id) \in st
    /\ ExistingChunks(st, clip_id) = {}

\* the faults that act only after the whole audio has been uploaded
ChunkStageFaults == {"wav16k", "split_all", "split_one", "put_chunks_all",
                     "put_chunks_tail", "put_chunk_one"}

\* C32: a clip stored with its video and audio keys and no chunk key is
\* reported incomplete, and process_clip on it is not skipped: it starts
\* again from the download, returns only keys it has written in this run,
\* and with nothing failing downloads, transcodes and uploads both files.
C32_AlwaysReprocessed ==
    /\ \A clip_id \in StoreClips :
          MainFilesOnly(store, clip_id)
             => ~CheckProcessingStatus(store, clip_id).is_complete
    /\ (Ran("process_clip") /\ MainFilesOnly(lastrun.before, lastrun.clip_id))
          => /\ ~Skipped
             /\ Tool("ensure_ffmpeg") \in lastrun.calls
             /\ \A k \in lastrun.files : CallOf("put", k) \in lastrun.calls
             /\ lastrun.flags \subseteq ChunkStageFaults =>
                   {Tool("download"), Tool("transcode"),
                    CallOf("put", Mp4Key(lastrun.clip_id)),
                    CallOf("put", WavKey(lastrun.clip_id))} \subseteq lastrun.calls

\* a clip already stored with both main files is processed again in full
C32_Witness ==
    /\ Ran("process_clip")
    /\ MainFilesOnly(lastrun.before, lastrun.clip_id)
    /\ lastrun.flags = {}
    /\ lastrun.success
    /\ Tool("download") \in lastrun.calls
    /\ CallOf("put", WavKey(lastrun.clip_id)) \in lastrun.calls

\* C33: once the duration has been probed, needs_chunking is true exactly
\* when the probe gave a positive duration above max_clip_duration (a
\* duration of exactly max_clip_duration is not chunked); a probe that gave
\* nothing leaves needs_chunking false, no chunking step is run, and the run
\* succeeds when nothing else fails.
C33_ChunkingThreshold ==
    (Ran("process_clip") /\ Tool("probe") \in lastrun.calls) =>
        /\ lastrun.needs_chunking <=>
              (lastrun.probed > 0 /\ lastrun.probed > max_clip_duration * Scale)
        /\ ~lastrun.needs_chunking =>
              (Tool("wav16k") \notin lastrun.calls /\ Tool("split") \notin lastrun.calls)
        /\ (lastrun.probed <= 0 /\ lastrun.flags \subseteq {"probe"} \cup ChunkStageFaults)
              => (lastrun.success /\ WavKey(lastrun.clip_id) \in lastrun.files)

\* a clip of exactly max_clip_duration seconds went through without chunking
C33_Witness ==
    /\ Ran("process_clip")
    /\ Tool("probe") \in lastrun.calls
    /\ lastrun.probed = max_clip_duration * Scale
    /\ lastrun.success
    /\ ~lastrun.needs_chunking
    /\ ExistingChunks(store, lastrun.clip_id) = {}

\* C34: every chunk that process_clip uploads is stored under the index of
\* the segment it holds, segment k being the one that starts at second 90k,
\* also when some segment could not be produced.
C34_ChunkNames ==
    Ran("process_clip") =>
        \A p \in lastrun.segments :
            /\ ChunkKey(lastrun.clip_id, p.idx) \in store
            /\ p.idx = p.segment

----------------------------------------------------------------------------
(* The claims on the two cache backends, stated on SpecTwin *)

\* C35: for the same requests at the same clock values, with both stores
\* within reach, check_rate_limit decides the same on the in-memory cache and
\* on the Redis cache: a request the in-memory deployment rejects as over the
\* ceiling is rejected by the Redis deployment as well.
C35_SameDecisions ==
    twin.admit["redis"] = twin.admit["memory"]

\* the sorted-set entries the store holds for an identity once the expired
\* keys are cleaned up at clock value t
EntriesLeft(c, client_ip, t) ==
    LET c1 == CleanupExpired(c, t)
    IN IF CacheKey(client_ip) \in DOMAIN c1.store
       THEN DOMAIN c1.store[CacheKey(client_ip)]
       ELSE {}

\* the identity has sent nothing for more than window + 60 seconds
LongSilent(c, client_ip, t) ==
    \A m \in EntriesLeft(c, client_ip, 0) :
        c.store[CacheKey(client_ip)][m] + rate_limit_window + ttl_buffer < t

\* C36: once more than window + 60 seconds have passed since the last
\* request of an identity, the store holds no sorted-set entry of that
\* identity after its expired keys are cleaned up.
C36_TtlCleansUp ==
    \A client_ip \in RateClients :
        LongSilent(twin.memory, client_ip, twin.clock)
           => EntriesLeft(twin.memory, client_ip, twin.clock) = {}

----------------------------------------------------------------------------
(* The limiter entry of a request, stated on Spec *)

\* the identity validate_request took from the headers of the request served
ServedIdentity == GetClientIp(HeadersOf(req.desc, req.at))

\* the rate-limit check ran on the fallback path with the store out of reach
StoreOutOfReach == resp.path = "fallback" /\ resp.faulty

\* C37: every validate_request call whose store is within reach leaves a
\* limiter entry of the request under the identity of the client, whether the
\* request is then rejected by the signature or idempotency check or not.
C37_CountedFirst ==
    (Responded /\ ~StoreOutOfReach) =>
        /\ CacheKey(ServedIdentity) \in DOMAIN cache.store
        /\ Str(req.at) \in DOMAIN cache.store[CacheKey(ServedIdentity)]

----------------------------------------------------------------------------
(* Deleting the task of a batch that has not finished, stated on SpecApi *)

\* the runner of an orphaned batch is not stopped, and when it has returned
\* it has a result for every clip
KeepsRunning ==
    \A k \in Requests :
        Orphaned(k) =>
            /\ jobs[k].pc \in {"queued", "running"} => ENABLED RunnerStep(k)
            /\ jobs[k].pc = "returned" =>
                  Len(jobs[k].results) = Len(jobs[k].clip_ids)

\* a step of the runner of an orphaned batch moves the batch on, is told by
\* update_task_status that there is no record, and leaves the registry as it is
NoRecordBack ==
    \A k \in Requests :
        (Orphaned(k) /\ RunnerStep(k)) =>
            /\ tasks' = tasks
            /\ jobs'[k] # jobs[k]
            /\ \/ jobs'[k].updates = jobs[k].updates
               \/ jobs'[k].updates = Append(jobs[k].updates, FALSE)

\* C38: deleting the task of a batch that is queued or running does not stop
\* the batch: its runner goes on to process every clip, each status update it
\* makes afterwards returns not-found, and no step of the runner puts the
\* record back.
C38_DeleteDoesNotCancel == []KeepsRunning /\ [][NoRecordBack]_vars

\* a batch whose task was deleted before it started has processed all its
\* clips, both of its updates having found no record
C38_Witness ==
    \E k \in Requests :
        /\ Orphaned(k)
        /\ jobs[k].pc = "returned"
        /\ Len(jobs[k].clip_ids) > 1
        /\ Len(jobs[k].results) = Len(jobs[k].clip_ids)
        /\ jobs[k].updates = <<FALSE, FALSE>>

----------------------------------------------------------------------------
(* Two runs on one clip, stated on SpecOverlap *)

\* the keys a finished run has sent a put_file for
Wrote(r) == {c.key : c \in {d \in inflight[r].calls : d.op = "put"}}

Downloaded(r) == Tool("download") \in inflight[r].calls

\* C40: of two runs of process_clip on the same clip that were in flight
\* together, at most one downloads the clip and writes its objects: no key
\* of the clip is written by both.
C40_OneWriter ==
    \A r \in Runners : \A q \in inflight[r].peers :
        (inflight[r].at = "done" /\ inflight[q].at = "done") =>
            /\ ~(Downloaded(r) /\ Downloaded(q))
            /\ Wrote(r) \cap Wrote(q) = {}

====
